---- MODULE Spec2Model ----
(***************************************************************************)
(* Incidence tables of the mesh layer (Table, DSTable, Transpose, Mult)    *)
(* and the refinement rules of EntitySets, as state machines.              *)
(*                                                                         *)
(* A Table is a record [size, I, J]: I is the row pointer array, indexed   *)
(* 0..size, and J the column array, indexed 0..I[size]-1, as in the code.  *)
(***************************************************************************)
EXTENDS Integers, Sequences, FiniteSets, TLC

VARIABLES
    mfemDebug,   \* the build defines MFEM_DEBUG
    status,      \* "ok", "fatal" (mfem_error was called), "undefined", or
                 \* "ended" (the EntitySets was destroyed)
    T,           \* the Table the Push / Finalize / operator() calls act on
    tLast,       \* the last call on T: its arguments, result and pre-state
    firstSlot,   \* history: pair <<i,j>> -> slot returned by its first Push
    A, B,        \* the Tables handed to Transpose and Mult
    out,         \* the last Transpose / Mult call and the tables it produced
    ds,          \* the DSTable: Rows, NumRows, NumEntries
    build,       \* the two-phase build of T: its phase, plan and progress
    dsLast,      \* the last Push_ / Index call on ds, its result and pre-state
    dsFirst,     \* history: the first Push_ of each pair, in call order
    mesh,        \* the Mesh of the EntitySets: its generation and table slots
    es,          \* the EntitySets: groups per kind, counts and tables
    esLast,      \* the last call on es and the instance before it
    esFirst,     \* history: the instance as Load left it, and the generation
                 \* of the mesh then
    ncent,       \* the NCEntitySets built from es
    heap         \* the Table objects allocated for the mesh and for es

tableVars == <<T, tLast, firstSlot>>
algVars == <<A, B, out, build>>
dsVars == <<ds, dsLast, dsFirst>>
setsVars == <<mesh, es, esLast, esFirst, ncent, heap>>
vars == <<mfemDebug, status, T, tLast, firstSlot, A, B, out, build, ds, dsLast, dsFirst,
          mesh, es, esLast, esFirst, ncent, heap>>

----------------------------------------------------------------------------
(* Bounds of the Table model *)

MaxRows == 2        \* a Table has 0..MaxRows rows
MaxDeg == 2         \* connections_per_row, and the row length of drawn tables
MaxCol == 1         \* columns pushed are Unset..MaxCol
MaxNnz == 4         \* at most MaxNnz slots are allocated for J
MultRows == 2       \* the operands of Mult have 0..MultRows rows
MultNnz == 4        \* and at most MultNnz entries together
DSRows == 2         \* a DSTable has 0..DSRows rows
DSCols == 2         \* Push_ and Index are called with columns 0..DSCols-1
DSEntries == 3      \* Push_ allocates at most DSEntries nodes
MaxElems == 32      \* a mesh is refined while it keeps at most MaxElems elements
MaxLoad == 3        \* a loaded file holds at most MaxLoad groups and entities
MaxId == 2          \* and names the entities 0..MaxId-1 of each kind

Unset == -1         \* the sentinel written by Table(dim, connections_per_row)

Cols == Unset..MaxCol

----------------------------------------------------------------------------
(* Table::Table(int dim, int connections_per_row) *)

RECURSIVE CtorI(_, _, _)
CtorI(Iarr, i, cpr) ==
    IF i > Len(Iarr) - 1 THEN Iarr
    ELSE CtorI([Iarr EXCEPT ![i + 1] = Iarr[i] + cpr], i + 1, cpr)

TableCtor(dim, cpr) ==
    LET Iseq == CtorI([k \in 1..(dim + 1) |-> 0], 1, cpr)
    IN  [size |-> dim,
         I    |-> [i \in 0..dim |-> Iseq[i + 1]],
         J    |-> [k \in 0..(dim * cpr - 1) |-> Unset]]

(* Table::Push: scan of row i from slot k up to end *)
RECURSIVE PushScanNoFind(_, _, _, _)
PushScanNoFind(tab, j, k, end) ==
    IF k >= end THEN [T |-> tab, ret |-> -1, err |-> TRUE]
    ELSE IF tab.J[k] = Unset
         THEN [T |-> [tab EXCEPT !.J[k] = j], ret |-> k, err |-> FALSE]
    ELSE PushScanNoFind(tab, j, k + 1, end)

RECURSIVE PushScanOverwrite(_, _, _, _)
PushScanOverwrite(tab, j, k, end) ==
    IF k >= end THEN [T |-> tab, ret |-> -1, err |-> TRUE]
    ELSE IF tab.J[k] = j THEN [T |-> tab, ret |-> k, err |-> FALSE]
    ELSE IF tab.J[k] = Unset \/ k = end - 1
         THEN [T |-> [tab EXCEPT !.J[k] = j], ret |-> k, err |-> FALSE]
    ELSE PushScanOverwrite(tab, j, k + 1, end)

RECURSIVE PushScan(_, _, _, _)
PushScan(tab, j, k, end) ==
    IF k >= end THEN [T |-> tab, ret |-> -1, err |-> TRUE]
    ELSE IF tab.J[k] = j THEN [T |-> tab, ret |-> k, err |-> FALSE]
    ELSE IF tab.J[k] = Unset
         THEN [T |-> [tab EXCEPT !.J[k] = j], ret |-> k, err |-> FALSE]
    ELSE PushScan(tab, j, k + 1, end)

Push(tab, i, j) == PushScan(tab, j, tab.I[i], tab.I[i + 1])

(* Table::operator()(int i, int j) const *)
RECURSIVE ParenScan(_, _, _, _)
ParenScan(tab, j, k, end) ==
    IF k >= end THEN -1
    ELSE IF tab.J[k] = j THEN k
    ELSE IF tab.J[k] = Unset THEN -1
    ELSE ParenScan(tab, j, k + 1, end)

OperatorParenNoRange(tab, i, j) ==
    IF i > tab.size \/ i < 0 THEN -1
    ELSE IF i = tab.size THEN 0
    ELSE ParenScan(tab, j, tab.I[i], tab.I[i + 1])

OperatorParen(tab, i, j) ==
    IF i >= tab.size \/ i < 0 THEN -1
    ELSE ParenScan(tab, j, tab.I[i], tab.I[i + 1])

----------------------------------------------------------------------------
(* Table::Finalize.  NewJ is allocated with sum slots and filled row by    *)
(* row up to the first sentinel of each row; a slot k that is never        *)
(* written keeps the indeterminate value garbage[k] of the allocation.     *)
(* The result carries n, the number of slots written, and err, the         *)
(* condition of the MFEM_DEBUG check.                                      *)

RECURSIVE CountSet(_, _, _)
CountSet(Jarr, i, nnz) ==
    IF i >= nnz THEN 0
    ELSE (IF Jarr[i] # Unset THEN 1 ELSE 0) + CountSet(Jarr, i + 1, nnz)

\* inner loop: st = [NewJ, n]
RECURSIVE FinRow(_, _, _, _)
FinRow(tab, st, j, end) ==
    IF j >= end THEN st
    ELSE IF tab.J[j] = Unset THEN st
    ELSE FinRow(tab, [NewJ |-> [st.NewJ EXCEPT ![st.n] = tab.J[j]],
                      n |-> st.n + 1], j + 1, end)

\* outer loop: st = [I, NewJ, n, newI]
RECURSIVE FinRowsOwnEnd(_, _, _)
FinRowsOwnEnd(tab, st, i) ==
    IF i >= tab.size THEN st
    ELSE LET r == FinRow(tab, [NewJ |-> st.NewJ, n |-> st.n],
                         st.I[i], st.I[i + 1])
         IN  FinRowsOwnEnd(tab, [I    |-> [st.I EXCEPT ![i] = r.n],
                                 NewJ |-> r.NewJ,
                                 n    |-> r.n,
                                 newI |-> r.n], i + 1)

RECURSIVE FinRows(_, _, _)
FinRows(tab, st, i) ==
    IF i >= tab.size THEN st
    ELSE LET r == FinRow(tab, [NewJ |-> st.NewJ, n |-> st.n],
                         st.I[i], st.I[i + 1])
         IN  FinRows(tab, [I    |-> [st.I EXCEPT ![i] = st.newI],
                           NewJ |-> r.NewJ,
                           n    |-> r.n,
                           newI |-> r.n], i + 1)

Finalize(tab, garbage) ==
    LET sum == CountSet(tab.J, 0, tab.I[tab.size])
    IN  IF sum # tab.I[tab.size]
        THEN LET st == FinRows(tab, [I |-> tab.I,
                                     NewJ |-> [k \in 0..(sum - 1) |->
                                                 IF k \in DOMAIN garbage
                                                 THEN garbage[k] ELSE Unset],
                                     n |-> 0, newI |-> 0], 0)
             IN  [T |-> [size |-> tab.size,
                         I    |-> [st.I EXCEPT ![tab.size] = sum],
                         J    |-> st.NewJ],
                  n |-> st.n, sum |-> sum, err |-> (sum # st.n)]
        ELSE [T |-> tab, n |-> sum, sum |-> sum, err |-> FALSE]

----------------------------------------------------------------------------
(* Table::SetDims, Table::Width, Transpose and Mult.  A null array is the  *)
(* empty function; an array from new int[n] holds Fresh in every slot      *)
(* until the code writes it.                                               *)

Fresh == -9         \* stands for the indeterminate value of new int[n]

NewInts(n) == [k \in 0..(n - 1) |-> Fresh]

NullTable == [size |-> -1, I |-> << >>, J |-> << >>]

SetDims(tab, rows, nnz) ==
    LET j  == IF tab.I # << >> THEN tab.I[tab.size] ELSE 0
        I1 == IF tab.size # rows
              THEN (IF rows >= 0 THEN NewInts(rows + 1) ELSE << >>)
              ELSE tab.I
        J1 == IF j # nnz
              THEN (IF nnz > 0 THEN NewInts(nnz) ELSE << >>)
              ELSE tab.J
    IN  [size |-> rows,
         I    |-> IF rows >= 0 THEN [[I1 EXCEPT ![0] = 0] EXCEPT ![rows] = nnz]
                  ELSE I1,
         J    |-> J1]

RECURSIVE WidthScan(_, _, _, _)
WidthScan(Jarr, k, nnz, width) ==
    IF k >= nnz THEN width + 1
    ELSE WidthScan(Jarr, k + 1, nnz, IF Jarr[k] > width THEN Jarr[k] ELSE width)

Width(tab) == WidthScan(tab.J, 0, tab.I[tab.size], -1)

\* for (i = 0; i <= ncols_A; i++) i_At[i] = 0;
RECURSIVE TrZero(_, _, _)
TrZero(iAt, i, ncols) ==
    IF i > ncols THEN iAt ELSE TrZero([iAt EXCEPT ![i] = 0], i + 1, ncols)

\* for (i = 0; i < nnz_A; i++) i_At[j_A[i]+1]++;
RECURSIVE TrCountNoShift(_, _, _, _)
TrCountNoShift(iAt, jA, i, nnz) ==
    IF i >= nnz THEN iAt
    ELSE TrCountNoShift([iAt EXCEPT ![jA[i]] = @ + 1], jA, i + 1, nnz)

RECURSIVE TrCount(_, _, _, _)
TrCount(iAt, jA, i, nnz) ==
    IF i >= nnz THEN iAt
    ELSE TrCount([iAt EXCEPT ![jA[i] + 1] = @ + 1], jA, i + 1, nnz)

\* for (i = 1; i < ncols_A; i++) i_At[i+1] += i_At[i];
RECURSIVE TrSum(_, _, _)
TrSum(iAt, i, ncols) ==
    IF i >= ncols THEN iAt
    ELSE TrSum([iAt EXCEPT ![i + 1] = @ + iAt[i]], i + 1, ncols)

\* for (j = i_A[i]; j < i_A[i+1]; j++) j_At[i_At[j_A[j]]++] = i;
RECURSIVE TrScatterRowSlot(_, _, _, _, _)
TrScatterRowSlot(st, tabA, i, j, end) ==
    IF j >= end THEN st
    ELSE LET c == tabA.J[j]
         IN  TrScatterRowSlot([I |-> [st.I EXCEPT ![c] = @ + 1],
                               J |-> [st.J EXCEPT ![st.I[c]] = j]],
                              tabA, i, j + 1, end)

RECURSIVE TrScatterRow(_, _, _, _, _)
TrScatterRow(st, tabA, i, j, end) ==
    IF j >= end THEN st
    ELSE LET c == tabA.J[j]
         IN  TrScatterRow([I |-> [st.I EXCEPT ![c] = @ + 1],
                           J |-> [st.J EXCEPT ![st.I[c]] = i]],
                          tabA, i, j + 1, end)

RECURSIVE TrScatter(_, _, _)
TrScatter(st, tabA, i) ==
    IF i >= tabA.size THEN st
    ELSE TrScatter(TrScatterRow(st, tabA, i, tabA.I[i], tabA.I[i + 1]),
                   tabA, i + 1)

\* for (i = ncols_A; i > 0; i--) i_At[i] = i_At[i-1];  (also Table::ShiftUpI)
RECURSIVE ShiftUp(_, _)
ShiftUp(iAt, i) ==
    IF i <= 0 THEN iAt ELSE ShiftUp([iAt EXCEPT ![i] = iAt[i - 1]], i - 1)

\* Transpose(const Table &A, Table &At, int _ncols_A); At is the table as
\* the caller passes it
Transpose(tabA, At, ncolsArg) ==
    LET ncols == IF ncolsArg < 0 THEN Width(tabA) ELSE ncolsArg
        nnz   == tabA.I[tabA.size]
        At0   == SetDims(At, ncols, nnz)
        i1    == TrZero(At0.I, 0, ncols)
        i2    == TrCount(i1, tabA.J, 0, nnz)
        i3    == TrSum(i2, 1, ncols)
        st    == TrScatter([I |-> i3, J |-> At0.J], tabA, 0)
        i5    == ShiftUp(st.I, ncols)
    IN  [size |-> ncols, I |-> [i5 EXCEPT ![0] = 0], J |-> st.J]

\* Mult: the walk over row i of A and the rows of B it names; st is
\* [marker, counter, J], fill tells the second pass from the first
RECURSIVE MultBStale(_, _, _, _, _, _)
MultBStale(st, tabB, i, l, end, fill) ==
    IF l >= end THEN st
    ELSE LET m == tabB.J[l]
         IN  IF st.marker[m] = -1
             THEN MultBStale([marker  |-> [st.marker EXCEPT ![m] = i],
                              counter |-> st.counter + 1,
                              J       |-> IF fill
                                          THEN [st.J EXCEPT ![st.counter] = m]
                                          ELSE st.J],
                             tabB, i, l + 1, end, fill)
             ELSE MultBStale(st, tabB, i, l + 1, end, fill)

RECURSIVE MultB(_, _, _, _, _, _)
MultB(st, tabB, i, l, end, fill) ==
    IF l >= end THEN st
    ELSE LET m == tabB.J[l]
         IN  IF st.marker[m] # i
             THEN MultB([marker  |-> [st.marker EXCEPT ![m] = i],
                         counter |-> st.counter + 1,
                         J       |-> IF fill
                                     THEN [st.J EXCEPT ![st.counter] = m]
                                     ELSE st.J],
                        tabB, i, l + 1, end, fill)
             ELSE MultB(st, tabB, i, l + 1, end, fill)

RECURSIVE MultA(_, _, _, _, _, _, _)
MultA(st, tabA, tabB, i, j, end, fill) ==
    IF j >= end THEN st
    ELSE LET k == tabA.J[j]
         IN  MultA(MultB(st, tabB, i, tabB.I[k], tabB.I[k + 1], fill),
                   tabA, tabB, i, j + 1, end, fill)

\* first pass: counts the entries of C
RECURSIVE MultCount(_, _, _, _)
MultCount(st, tabA, tabB, i) ==
    IF i >= tabA.size THEN st
    ELSE MultCount(MultA(st, tabA, tabB, i, tabA.I[i], tabA.I[i + 1], FALSE),
                   tabA, tabB, i + 1)

\* second pass: st also carries I, with i_C[i] = counter at the row's start
RECURSIVE MultFill(_, _, _, _)
MultFill(st, tabA, tabB, i) ==
    IF i >= tabA.size THEN st
    ELSE LET s0 == [marker |-> st.marker, counter |-> st.counter, J |-> st.J]
             s1 == MultA(s0, tabA, tabB, i, tabA.I[i], tabA.I[i + 1], TRUE)
         IN  MultFill([marker |-> s1.marker, counter |-> s1.counter,
                       J |-> s1.J, I |-> [st.I EXCEPT ![i] = st.counter]],
                      tabA, tabB, i + 1)

\* Mult(const Table &A, const Table &B, Table &C); err is the mfem_error of
\* ncols_A > nrows_B
Mult(tabA, tabB, Ctab) ==
    LET ncolsA == Width(tabA)
        ncolsB == Width(tabB)
    IN  IF ncolsA > tabB.size
        THEN [C |-> Ctab, err |-> TRUE]
        ELSE LET marker == [m \in 0..(ncolsB - 1) |-> -1]
                 p1 == MultCount([marker |-> marker, counter |-> 0, J |-> << >>],
                                 tabA, tabB, 0)
                 C0 == SetDims(Ctab, tabA.size, p1.counter)
                 p2 == MultFill([marker |-> marker, counter |-> 0,
                                 J |-> C0.J, I |-> C0.I], tabA, tabB, 0)
             IN  [C |-> [size |-> C0.size, I |-> p2.I, J |-> p2.J],
                  err |-> FALSE]

----------------------------------------------------------------------------
(* DSTable.  Rows[r] is the chain of row r as a sequence of nodes          *)
(* [Column, Index], the newest node first; the Prev link of a node is the  *)
(* rest of the sequence.                                                   *)

DSTableCtor(nrows) ==
    [Rows |-> [i \in 0..(nrows - 1) |-> << >>],
     NumRows |-> nrows,
     NumEntries |-> 0]

\* for (n = Rows[r]; n != NULL; n = n->Prev) if (n->Column == c) return n->Index;
\* -1 stands for leaving the loop
RECURSIVE ChainFind(_, _)
ChainFind(chain, c) ==
    IF chain = << >> THEN -1
    ELSE IF Head(chain).Column = c THEN Head(chain).Index
    ELSE ChainFind(Tail(chain), c)

\* DSTable::Push_ for a row of the table
Push_Always(d, r, c) ==
    [ds  |-> [d EXCEPT !.Rows[r] = <<[Column |-> c, Index |-> d.NumEntries]>> \o @,
                       !.NumEntries = @ + 1],
     ret |-> d.NumEntries]

Push_(d, r, c) ==
    LET found == ChainFind(d.Rows[r], c)
    IN  IF found # -1
        THEN [ds |-> d, ret |-> found]
        ELSE [ds  |-> [d EXCEPT !.Rows[r] =
                                   <<[Column |-> c, Index |-> d.NumEntries]>> \o @,
                                !.NumEntries = @ + 1],
              ret |-> d.NumEntries]

\* DSTable::Index for a row r >= 0
IndexNoRange(d, r, c) ==
    IF r > d.NumRows THEN -1
    ELSE IF r = d.NumRows THEN 0
    ELSE ChainFind(d.Rows[r], c)

Index(d, r, c) ==
    IF r >= d.NumRows THEN -1
    ELSE ChainFind(d.Rows[r], c)

----------------------------------------------------------------------------
(* The mesh that EntitySets works on.  Mesh is not part of these sources;  *)
(* it is modelled from the interface the specification lists: the vertex,  *)
(* edge and element counts, the edge->vertex, face->vertex and face->edge  *)
(* tables, the vertex pair table and the face lookup.  A mesh is a record  *)
(* [Dim, NV, elems, edges, faces] with its tables: elems[el+1] lists the   *)
(* vertices of element el (4 of a quadrilateral, 8 of a hexahedron, in the *)
(* usual local order), edges[e+1] is the vertex pair <<lo, hi>> of edge e  *)
(* and faces[f+1] the four vertices of face f around its boundary;         *)
(* edge_vertex, face_vertex and face_edge are the same as Tables and       *)
(* v_to_v is the vertex pair table as a DSTable.                           *)

Min2(a, b) == IF a < b THEN a ELSE b
Max2(a, b) == IF a < b THEN b ELSE a

QuadEdges == << <<0, 1>>, <<1, 2>>, <<2, 3>>, <<3, 0>> >>

HexEdges == << <<0, 1>>, <<1, 2>>, <<3, 2>>, <<0, 3>>, <<4, 5>>, <<5, 6>>,
               <<7, 6>>, <<4, 7>>, <<0, 4>>, <<1, 5>>, <<2, 6>>, <<3, 7>> >>

HexFaces == << <<3, 2, 1, 0>>, <<0, 1, 5, 4>>, <<1, 2, 6, 5>>,
               <<2, 3, 7, 6>>, <<3, 0, 4, 7>>, <<4, 5, 6, 7>> >>

TetEdges == << <<0, 1>>, <<0, 2>>, <<0, 3>>, <<1, 2>>, <<1, 3>>, <<2, 3>> >>

TetFaces == << <<1, 2, 3>>, <<0, 3, 2>>, <<0, 1, 3>>, <<0, 2, 1>> >>

\* the local edges and faces of the elements of a mesh: quadrilaterals in
\* two dimensions, in three hexahedra (eight vertices) or tetrahedra (four)
LocalEdges(dim, elems) ==
    IF dim = 2 THEN QuadEdges
    ELSE IF Len(elems[1]) = 8 THEN HexEdges ELSE TetEdges

LocalFaces(elems) == IF Len(elems[1]) = 8 THEN HexFaces ELSE TetFaces

SeqIndex(sq, x) ==
    IF \E n \in 1..Len(sq) : sq[n] = x
    THEN (CHOOSE n \in 1..Len(sq) : sq[n] = x) - 1
    ELSE -1

Range(sq) == {sq[n] : n \in 1..Len(sq)}

\* the vertex tuples of every local edge or face of every element, in the
\* order the elements list them
Sides(elems, local) ==
    [c \in 1..(Len(elems) * Len(local)) |->
        LET elem == elems[((c - 1) \div Len(local)) + 1]
            side == local[((c - 1) % Len(local)) + 1]
        IN  [k \in 1..Len(side) |-> elem[side[k] + 1]]] \o << >>

\* the sides numbered as they are first met; a side met again keeps the
\* number of its first meeting
FirstMet(sides) ==
    LET firsts == {c \in 1..Len(sides) :
                      \A d \in 1..(c - 1) : Range(sides[d]) # Range(sides[c])}
    IN  [n \in 1..Cardinality(firsts) |->
            sides[CHOOSE c \in firsts :
                      Cardinality({d \in firsts : d < c}) = n - 1]] \o << >>

BuildEdges(elems, local) ==
    LET met == FirstMet(Sides(elems, local))
    IN  [n \in 1..Len(met) |->
            <<Min2(met[n][1], met[n][2]), Max2(met[n][1], met[n][2])>>] \o << >>

FaceIndexOf(faces, vs) ==
    IF \E n \in 1..Len(faces) : Range(faces[n]) = vs
    THEN (CHOOSE n \in 1..Len(faces) : Range(faces[n]) = vs) - 1
    ELSE -1

BuildFaces(elems) == FirstMet(Sides(elems, LocalFaces(elems)))

\* a table with w columns in every row, one row per member of rows
\* (a mesh holds elements of one shape, so its faces are of one size)
FixedTable(rows, w) ==
    [size |-> Len(rows),
     I    |-> [i \in 0..Len(rows) |-> w * i],
     J    |-> [k \in 0..(w * Len(rows) - 1) |-> rows[(k \div w) + 1][(k % w) + 1]]]

\* the edges of a face, the one from its corner k to the next corner at k
FaceEdges(edges, face) ==
    [k \in 1..Len(face) |->
        SeqIndex(edges, <<Min2(face[k], face[(k % Len(face)) + 1]),
                          Max2(face[k], face[(k % Len(face)) + 1])>>)] \o << >>

\* the vertex pair table: edge n was pushed as the pair (lo, hi) when the
\* table held n entries, so the chain of row lo lists its edges newest first
VertexToVertexTable(nv, edges) ==
    [Rows |-> [r \in 0..(nv - 1) |->
                 LET own == {n \in 1..Len(edges) : edges[n][1] = r}
                 IN  [p \in 1..Cardinality(own) |->
                         LET n == CHOOSE n \in own :
                                      Cardinality({q \in own : q > n}) = p - 1
                         IN  [Column |-> edges[n][2], Index |-> n - 1]] \o << >>],
     NumRows |-> nv,
     NumEntries |-> Len(edges)]

MeshOfElems(dim, nv, elems) ==
    LET edges == BuildEdges(elems, LocalEdges(dim, elems))
        faces == IF dim = 3 THEN BuildFaces(elems) ELSE << >>
        w     == IF faces = << >> THEN 4 ELSE Len(faces[1])
    IN  [Dim   |-> dim,
         NV    |-> nv,
         elems |-> elems,
         edges |-> edges,
         faces |-> faces,
         edge_vertex |-> FixedTable(edges, 2),
         face_vertex |-> FixedTable(faces, w),
         face_edge   |-> FixedTable([f \in 1..Len(faces) |->
                                        FaceEdges(edges, faces[f])] \o << >>, w),
         v_to_v      |-> VertexToVertexTable(nv, edges)]

\* uniform refinement: the vertices of the children of element el lie on
\* the lattice {0,1,2}^Dim over its corners; a lattice point is a corner,
\* the middle of an edge (vertex NV + e), the centre of a face (vertex
\* NV + NEdges + f) or the centre of the element
LocalX(k) == IF (k % 4) \in {1, 2} THEN 1 ELSE 0
LocalY(k) == IF (k % 4) \in {2, 3} THEN 1 ELSE 0
LocalZ(k) == k \div 4
CornerAt(x, y, z) == 4 * z + (IF y = 0 THEN x ELSE 3 - x)
Span(c) == IF c = 1 THEN {0, 1} ELSE {c \div 2}

LatticeVertex(m, el, x, y, z) ==
    LET elem == m.elems[el + 1]
        vs   == {elem[CornerAt(a, b, c) + 1] :
                    a \in Span(x), b \in Span(y), c \in Span(z)}
        n    == Cardinality(vs)
    IN  IF n = 1 THEN CHOOSE v \in vs : TRUE
        ELSE IF n = 2
             THEN m.NV + SeqIndex(m.edges,
                      <<CHOOSE v \in vs : \A w \in vs : v <= w,
                        CHOOSE v \in vs : \A w \in vs : v >= w>>)
        ELSE IF n = 4 /\ m.Dim = 3
             THEN m.NV + Len(m.edges) + FaceIndexOf(m.faces, vs)
        ELSE m.NV + Len(m.edges) + Len(m.faces) + el

\* child k of element el holds corner k of el
ChildElem(m, el, k) ==
    [q \in 1..(IF m.Dim = 2 THEN 4 ELSE 8) |->
        LatticeVertex(m, el, LocalX(k) + LocalX(q - 1), LocalY(k) + LocalY(q - 1),
                      IF m.Dim = 2 THEN 0 ELSE LocalZ(k) + LocalZ(q - 1))] \o << >>

\* child 0 takes the place of el, the others follow the old elements
RefineMesh(m) ==
    LET b  == IF m.Dim = 2 THEN 4 ELSE 8
        ne == Len(m.elems)
    IN  MeshOfElems(m.Dim,
                    m.NV + Len(m.edges) + Len(m.faces) + ne,
                    [id \in 1..(b * ne) |->
                        IF id <= ne THEN ChildElem(m, id - 1, 0)
                        ELSE ChildElem(m, (id - 1 - ne) \div (b - 1),
                                       ((id - 1 - ne) % (b - 1)) + 1)] \o << >>)

\* the meshes the model starts from: one quadrilateral, two quadrilaterals
\* side by side, one hexahedron, one tetrahedron
StartMeshes ==
    << MeshOfElems(2, 4, << <<0, 1, 2, 3>> >>),
       MeshOfElems(2, 6, << <<0, 1, 4, 3>>, <<1, 2, 5, 4>> >>),
       MeshOfElems(3, 8, << <<0, 1, 2, 3, 4, 5, 6, 7>> >> ),
       MeshOfElems(3, 4, << <<0, 1, 2, 3>> >>) >>

\* QuadUniformRefinement and HexUniformRefinement are for meshes of
\* quadrilaterals and of hexahedra
Refinable(m) == m.Dim = 2 \/ Len(m.elems[1]) = 8

Branching(dim) == IF dim = 2 THEN 4 ELSE 8

\* the refinements of a start mesh, as long as they hold at most MaxElems
\* elements
RECURSIVE Generations(_)
Generations(ms) ==
    LET m == ms[Len(ms)]
    IN  IF ~Refinable(m) \/ Branching(m.Dim) * Len(m.elems) > MaxElems THEN ms
        ELSE Generations(Append(ms, RefineMesh(m)))

MeshGenerations ==
    [id \in 1..Len(StartMeshes) |-> Generations(<<StartMeshes[id]>>)] \o << >>

\* what EntitySets asks of its mesh; mh is the mesh reached by mh.gen
\* refinements of start mesh mh.id
\* the face-vertex table lists the corners of a quadrilateral face in the
\* order mh.order
FaceOrder(tab, order) ==
    [tab EXCEPT !.J = [k \in DOMAIN tab.J |->
                          tab.J[4 * (k \div 4) + order[(k % 4) + 1] - 1]]]

\* refinement gen of start mesh id, its face-vertex table in this order
MeshData(id, gen, order) ==
    LET m == MeshGenerations[id][gen + 1]
    IN  IF order = <<1, 2, 3, 4>> \/ ~Refinable(m) THEN m
        ELSE [m EXCEPT !.face_vertex = FaceOrder(@, order)]

MeshOf(mh) == mh.data
GetNV(mh) == MeshOf(mh).NV
GetNEdges(mh) == Len(MeshOf(mh).edges)
GetNE(mh) == Len(MeshOf(mh).elems)

\* DSTable::operator(): the pair table is asked with the lower vertex as row
DSParen(d, i, j) == IF i <= j THEN Index(d, i, j) ELSE Index(d, j, i)

\* STable3D::operator(): the face with these four vertices, -1 without one
FacesTable(mh, v0, v1, v2, v3) == FaceIndexOf(MeshOf(mh).faces, {v0, v1, v2, v3})

----------------------------------------------------------------------------
(* EntitySets.  es.sets[t] is the list of the groups of kind t, a group the *)
(* list of its entity indices; position p of the code is member p + 1.      *)
(* mesh.id and mesh.gen name the mesh, mesh.told says that EntitySets has  *)
(* been told of its last refinement, mesh.order is the order in which the   *)
(* face-vertex table lists the corners of a quadrilateral face, mesh.slot   *)
(* holds the tables the mesh keeps, mesh.data is the mesh as the record     *)
(* described above.  A Table object is a positive number,                   *)
(* 0 is NULL; es.ptr names the objects behind the tables of es.             *)

NoTables == [edge_vertex |-> 0, face_vertex |-> 0, face_edge |-> 0]

FreshMesh(id) ==
    [id |-> id, gen |-> 0, told |-> TRUE, order |-> <<1, 2, 3, 4>>, slot |-> NoTables,
     data |-> MeshData(id, 0, <<1, 2, 3, 4>>)]

\* the heap: the live objects, and whether an object was deleted twice
NoHeap == [live |-> {}, twice |-> FALSE]

\* new Table: the first number that names no live object
NewTable(hp) ==
    CHOOSE n \in 1..(Cardinality(hp.live) + 1) :
        n \notin hp.live /\ \A q \in 1..(n - 1) : q \in hp.live

Alloc(hp) == [hp EXCEPT !.live = @ \cup {NewTable(hp)}]

\* delete p; delete of NULL does nothing
Delete(hp, p) ==
    IF p = 0 THEN hp
    ELSE IF p \in hp.live THEN [hp EXCEPT !.live = @ \ {p}]
    ELSE [hp EXCEPT !.twice = TRUE]

NoSets == [VERTEX |-> << >>, EDGE |-> << >>, FACE |-> << >>, ELEMENT |-> << >>]

\* set_index_by_name_ of one kind: a map from names to ordinals
NoIndex == [VERTEX |-> << >>, EDGE |-> << >>, FACE |-> << >>, ELEMENT |-> << >>]

EntitySetsCtor(mh) ==
    [sets           |-> NoSets,
     set_names_     |-> NoSets,
     set_index_by_name_ |-> NoIndex,
     edge_vertex_   |-> NullTable,
     face_vertex_   |-> NullTable,
     face_edge_     |-> NullTable,
     ptr            |-> NoTables,
     NumOfVertices_ |-> GetNV(mh),
     NumOfEdges_    |-> GetNEdges(mh),
     NumOfElements_ |-> GetNE(mh)]

GetNumSets(e, t) == Len(e.sets[t])

\* Table::GetRow(i)[k]
GetRow(tab, i, k) == tab.J[tab.I[i] + k]

\* one table of CopyMeshTables, on w = [e, mh, hp]: the table held is
\* deleted; a table in the slot of the mesh is copied; without one the mesh
\* builds the table in its slot, EntitySets takes it and empties the slot
AcquireTableShared(w, k) ==
    LET hp1 == Delete(w.hp, w.e.ptr[k])
    IN  IF w.mh.slot[k] # 0
        THEN [w EXCEPT !.e.ptr[k] = NewTable(hp1), !.hp = Alloc(hp1)]
        ELSE [w EXCEPT !.e.ptr[k] = NewTable(hp1), !.hp = Alloc(hp1),
                       !.mh.slot[k] = NewTable(hp1)]

AcquireTable(w, k) ==
    LET hp1 == Delete(w.hp, w.e.ptr[k])
    IN  IF w.mh.slot[k] # 0
        THEN [w EXCEPT !.e.ptr[k] = NewTable(hp1), !.hp = Alloc(hp1)]
        ELSE [w EXCEPT !.e.ptr[k] = NewTable(hp1), !.hp = Alloc(hp1),
                       !.mh.slot[k] = 0]

\* the tables as values: both branches leave EntitySets with the table of
\* the mesh as it is now
MeshTables(e, mh) ==
    [e EXCEPT
       !.edge_vertex_ = IF GetNumSets(e, "EDGE") > 0
                        THEN MeshOf(mh).edge_vertex ELSE @,
       !.face_vertex_ = IF GetNumSets(e, "FACE") > 0
                        THEN MeshOf(mh).face_vertex ELSE @,
       !.face_edge_   = IF GetNumSets(e, "FACE") > 0
                        THEN MeshOf(mh).face_edge ELSE @,
       !.NumOfVertices_ = GetNV(mh),
       !.NumOfEdges_    = GetNEdges(mh),
       !.NumOfElements_ = GetNE(mh)]

\* EntitySets::CopyMeshTables: the instance, the mesh and the heap after it
CopyMeshTables(e, mh, hp) ==
    LET w0 == [e |-> MeshTables(e, mh), mh |-> mh, hp |-> hp]
        w1 == IF GetNumSets(e, "EDGE") > 0 THEN AcquireTable(w0, "edge_vertex") ELSE w0
        w2 == IF GetNumSets(e, "FACE") > 0 THEN AcquireTable(w1, "face_vertex") ELSE w1
    IN  IF GetNumSets(e, "FACE") > 0 THEN AcquireTable(w2, "face_edge") ELSE w2

\* EntitySets::~EntitySets
Destroy(e, hp) ==
    Delete(Delete(Delete(hp, e.ptr.edge_vertex), e.ptr.face_edge), e.ptr.face_vertex)

\* the EDGE loop over one group: entry i is read before i and i + n are
\* written, and no entry below n is written before it is read
EdgeRefine(g, e, mh) ==
    LET n     == Len(g)
        oedge == e.NumOfVertices_
    IN  [p \in 1..(2 * n) |->
            LET i        == IF p <= n THEN p - 1 ELSE p - 1 - n
                old_edge == g[i + 1]
            IN  DSParen(MeshOf(mh).v_to_v,
                        GetRow(e.edge_vertex_, old_edge, IF p <= n THEN 0 ELSE 1),
                        oedge + old_edge)]

\* the search over k and l for corner j of old_face: the first face found,
\* -1 when every probe misses
FaceChild(e, mh, old_face, j) ==
    LET v0     == GetRow(e.face_vertex_, old_face, j)
        v3     == e.NumOfVertices_ + e.NumOfEdges_ + old_face
        ed(k)  == e.NumOfVertices_ + GetRow(e.face_edge_, old_face, k)
        probe(c) == FacesTable(mh, v0, ed(c \div 3), ed(((c \div 3) + (c % 3) + 1) % 4), v3)
        hits   == {c \in 0..11 : probe(c) >= 0}
    IN  IF hits = {} THEN -1
        ELSE probe(CHOOSE c \in hits : \A d \in hits : c <= d)

\* the FACE loop with the children of corners 1..3 in the opposite order
FaceRefineReversed(g, e, mh) ==
    LET n == Len(g)
    IN  [p \in 1..(4 * n) |->
            LET i        == IF p <= n THEN p - 1 ELSE (p - 1 - n) \div 3
                j        == IF p <= n THEN 0 ELSE 3 - ((p - 1 - n) % 3)
                new_face == FaceChild(e, mh, g[i + 1], j)
            IN  IF new_face >= 0 THEN new_face
                ELSE IF p <= n THEN g[p] ELSE 0]

\* the FACE loop over one group: resize(4 * n) fills the new entries with
\* 0, a corner whose search misses leaves its entry as it is
FaceRefine(g, e, mh) ==
    LET n == Len(g)
    IN  [p \in 1..(4 * n) |->
            LET i        == IF p <= n THEN p - 1 ELSE (p - 1 - n) \div 3
                j        == IF p <= n THEN 0 ELSE ((p - 1 - n) % 3) + 1
                new_face == FaceChild(e, mh, g[i + 1], j)
            IN  IF new_face >= 0 THEN new_face
                ELSE IF p <= n THEN g[p] ELSE 0]

\* the ELEMENT loop over one group, b the number of children of an element
ElementRefineStride(g, NumOfElements_, b) ==
    LET n == Len(g)
    IN  [p \in 1..(b * n) |->
            IF p <= n THEN g[p]
            ELSE NumOfElements_ + b * g[((p - 1 - n) \div (b - 1)) + 1]
                                + ((p - 1 - n) % (b - 1))]

ElementRefine(g, NumOfElements_, b) ==
    LET n == Len(g)
    IN  [p \in 1..(b * n) |->
            IF p <= n THEN g[p]
            ELSE NumOfElements_ + (b - 1) * g[((p - 1 - n) \div (b - 1)) + 1]
                                + ((p - 1 - n) % (b - 1))]

\* GetRow is handed group entries as they are: an entry that is no row of
\* the table makes the call read outside the table
RowsExist(groups, tab) ==
    \A s \in 1..Len(groups) : \A p \in 1..Len(groups[s]) :
        groups[s][p] \in 0..(tab.size - 1)

QuadUniformRefinement(e, mh, hp) ==
    CopyMeshTables(
        [e EXCEPT
           !.sets.EDGE    = [s \in 1..Len(@) |-> EdgeRefine(@[s], e, mh)],
           !.sets.ELEMENT = [s \in 1..Len(@) |->
                                ElementRefine(@[s], e.NumOfElements_, 4)]],
        mh, hp)

HexUniformRefinement(e, mh, hp) ==
    CopyMeshTables(
        [e EXCEPT
           !.sets.EDGE    = [s \in 1..Len(@) |-> EdgeRefine(@[s], e, mh)],
           !.sets.FACE    = [s \in 1..Len(@) |-> FaceRefine(@[s], e, mh)],
           !.sets.ELEMENT = [s \in 1..Len(@) |->
                                ElementRefine(@[s], e.NumOfElements_, 8)]],
        mh, hp)

----------------------------------------------------------------------------
(* The text of an entity set file and the stream Load reads it from.  A    *)
(* text is a sequence of tokens: a number, a word or the end of a line;    *)
(* the blanks between the tokens of a line are not kept.  A stream is the  *)
(* text not read yet with its eofbit and failbit.                          *)

NL == [t |-> "nl", n |-> 0, w |-> ""]
Num(n) == [t |-> "num", n |-> n, w |-> ""]
Word(w) == [t |-> "word", n |-> 0, w |-> w]

OpenStream(text) == [toks |-> text, eof |-> FALSE, fail |-> FALSE]
Good(s) == ~s.eof /\ ~s.fail

\* a stream that is not open
NotOpen == [toks |-> << >>, eof |-> FALSE, fail |-> TRUE]

RECURSIVE DropNL(_)
DropNL(toks) ==
    IF toks # << >> /\ Head(toks).t = "nl" THEN DropNL(Tail(toks)) ELSE toks

\* the position of the first end of line, 0 without one
FirstNL(toks) ==
    IF \E n \in 1..Len(toks) : toks[n].t = "nl"
    THEN CHOOSE n \in 1..Len(toks) :
             toks[n].t = "nl" /\ \A q \in 1..(n - 1) : toks[q].t # "nl"
    ELSE 0

\* input >> ws
SkipWs(s) ==
    IF ~Good(s) THEN [s EXCEPT !.fail = TRUE]
    ELSE LET rest == DropNL(s.toks)
         IN  [s EXCEPT !.toks = rest, !.eof = (rest = << >>)]

\* input >> n for an int n holding old: a stream that is not good, or that
\* ends before a token, leaves n alone; a token that is no number sets n to 0
ReadInt(s, old) ==
    LET w == SkipWs(s)
    IN  IF ~Good(w) THEN [s |-> [w EXCEPT !.fail = TRUE], v |-> old]
        ELSE IF Head(w.toks).t = "num"
             THEN [s |-> [w EXCEPT !.toks = Tail(@), !.eof = (Tail(w.toks) = << >>)],
                   v |-> Head(w.toks).n]
        ELSE [s |-> [w EXCEPT !.fail = TRUE], v |-> 0]

\* input >> ident for a string ident holding old
ReadWord(s, old) ==
    LET w == SkipWs(s)
    IN  IF ~Good(w) THEN [s |-> [w EXCEPT !.fail = TRUE], v |-> old]
        ELSE [s |-> [w EXCEPT !.toks = Tail(@), !.eof = (Tail(w.toks) = << >>)],
              v |-> <<Head(w.toks)>>]

\* getline(input, ident): the tokens up to the end of the line, which is
\* read as well
GetLine(s, old) ==
    IF ~Good(s) THEN [s |-> [s EXCEPT !.fail = TRUE], v |-> old]
    ELSE IF s.toks = << >>
         THEN [s |-> [s EXCEPT !.eof = TRUE, !.fail = TRUE], v |-> << >>]
    ELSE LET n == FirstNL(s.toks)
         IN  IF n = 0
             THEN [s |-> [s EXCEPT !.toks = << >>, !.eof = TRUE], v |-> s.toks]
             ELSE [s |-> [s EXCEPT !.toks = SubSeq(@, n + 1, Len(@))],
                   v |-> SubSeq(s.toks, 1, n - 1)]

\* a string as Load and Print write it
Str(w) == <<Word(w)>>

----------------------------------------------------------------------------
(* EntitySets::Load.  The loops of LoadEntitySets run over a record c: the *)
(* stream s, the instance e, the status st and the locals ident,           *)
(* NumEntities, g, v0 .. v3, which keep their values from one entity to    *)
(* the next; g and v0 .. v3 start indeterminate (Fresh).                   *)

Resize(v, n) == [p \in 1..n |-> IF p <= Len(v) THEN v[p] ELSE 0]
ResizeSeqs(v, n) == [p \in 1..n |-> IF p <= Len(v) THEN v[p] ELSE << >>]

\* input >> x, input >> ws and getline(input, x) for a local x of the loops
ReadIntTo(c, x) ==
    LET r == ReadInt(c.s, c[x]) IN [c EXCEPT !.s = r.s, ![x] = r.v]

ReadWordTo(c, x) ==
    LET r == ReadWord(c.s, c[x]) IN [c EXCEPT !.s = r.s, ![x] = r.v]

GetLineTo(c, x) ==
    LET r == GetLine(c.s, c[x]) IN [c EXCEPT !.s = r.s, ![x] = r.v]

Ws(c) == [c EXCEPT !.s = SkipWs(@)]

\* (*v_to_v)(v0, v1) with the values read
EdgeLookup(c, mh, dbg) ==
    IF c.v0 = Fresh \/ c.v1 = Fresh THEN [c EXCEPT !.st = "undefined"]
    ELSE IF Min2(c.v0, c.v1) < 0
         THEN [c EXCEPT !.st = IF dbg THEN "fatal" ELSE "undefined"]
    ELSE [c EXCEPT !.ent = DSParen(MeshOf(mh).v_to_v, c.v0, c.v1)]

\* case EDGE of the loop over j
LoadEdge(c, mh, dbg) == EdgeLookup(ReadIntTo(ReadIntTo(c, "v0"), "v1"), mh, dbg)

\* (*faces_tbl)(v0, v1, v2) and (*faces_tbl)(v0, v1, v2, v3)
TriangleLookup(c, mh) ==
    IF Fresh \in {c.v0, c.v1, c.v2} THEN [c EXCEPT !.st = "undefined"]
    ELSE [c EXCEPT !.ent = FaceIndexOf(MeshOf(mh).faces, {c.v0, c.v1, c.v2})]

QuadLookup(c, mh) ==
    IF Fresh \in {c.v0, c.v1, c.v2, c.v3} THEN [c EXCEPT !.st = "undefined"]
    ELSE [c EXCEPT !.ent = FacesTable(mh, c.v0, c.v1, c.v2, c.v3)]

\* the branches on g
FaceByKind(c, mh) ==
    IF c.g = Fresh THEN [c EXCEPT !.st = "undefined"]
    ELSE IF c.g = 2
         THEN TriangleLookup(ReadIntTo(ReadIntTo(ReadIntTo(c, "v0"), "v1"), "v2"), mh)
    ELSE IF c.g = 3
         THEN QuadLookup(ReadIntTo(ReadIntTo(ReadIntTo(ReadIntTo(c,
                             "v0"), "v1"), "v2"), "v3"), mh)
    ELSE [c EXCEPT !.st = "fatal"]

\* case FACE of the loop over j
LoadFace(c, mh) == FaceByKind(ReadIntTo(c, "g"), mh)

\* sets_[t][i][j] = the value read or looked up; input >> ws
StoreEntity(c, t, i, j) ==
    IF c.st # "ok" THEN c
    ELSE [c EXCEPT !.e.sets[t][i + 1][j + 1] = c.ent, !.s = SkipWs(c.s)]

\* the body of the loop over j: entity j of group i of kind t; a vertex or
\* an element is read into its place in the group
LoadEntity(c, t, mh, dbg, i, j) ==
    StoreEntity(IF t = "EDGE" THEN LoadEdge(c, mh, dbg)
                ELSE IF t = "FACE" THEN LoadFace(c, mh)
                ELSE ReadIntTo([c EXCEPT !.ent = c.e.sets[t][i + 1][j + 1]], "ent"),
                t, i, j)

RECURSIVE LoadEntities(_, _, _, _, _, _)
LoadEntities(c, t, mh, dbg, i, j) ==
    IF c.st # "ok" \/ j >= c.NumEntities THEN c
    ELSE LoadEntities(LoadEntity(c, t, mh, dbg, i, j), t, mh, dbg, i, j + 1)

\* set_names_[t][i] = ident; set_index_by_name_[t][ident] = i; resize, which
\* throws for a negative NumEntities; the loop over j
NameAndFill(c, t, mh, dbg, i) ==
    IF c.NumEntities < 0
    THEN [c EXCEPT !.e.set_names_[t][i + 1] = c.ident,
                   !.e.set_index_by_name_[t] = (c.ident :> i) @@ @,
                   !.st = "fatal"]
    ELSE LoadEntities([c EXCEPT !.e.set_names_[t][i + 1] = c.ident,
                                !.e.set_index_by_name_[t] = (c.ident :> i) @@ @,
                                !.e.sets[t][i + 1] = Resize(@, c.NumEntities)],
                      t, mh, dbg, i, 0)

\* the body of the loop over i: group i of kind t
LoadSet(c, t, mh, dbg, i) ==
    NameAndFill(ReadIntTo(GetLineTo(c, "ident"), "NumEntities"), t, mh, dbg, i)

RECURSIVE LoadSets(_, _, _, _, _, _)
LoadSets(c, t, mh, dbg, i, NumSets) ==
    IF c.st # "ok" \/ i >= NumSets THEN c
    ELSE LoadSets(LoadSet(c, t, mh, dbg, i), t, mh, dbg, i + 1, NumSets)

\* MFEM_VERIFY(ident == header); resize, which throws for a negative
\* NumSets; the loop over i
SetsOfKind(c, t, header, mh, dbg) ==
    IF c.ident # Str(header) THEN [c EXCEPT !.st = "fatal"]
    ELSE IF c.NumSets < 0 THEN [c EXCEPT !.st = "fatal"]
    ELSE LoadSets([c EXCEPT !.e.sets[t] = ResizeSeqs(@, c.NumSets),
                            !.e.set_names_[t] = ResizeSeqs(@, c.NumSets),
                            !.NumEntities = -1],
                  t, mh, dbg, 0, c.NumSets)

\* input >> ident >> ws, then the test of ident; input >> NumSets >> ws
ReadNumSets(c, header) ==
    IF c.ident # Str(header) THEN c
    ELSE Ws(ReadIntTo([c EXCEPT !.NumSets = -1], "NumSets"))

\* the text holds no comment lines: skip_comment_lines skips white space
LoadEntitySets(c, t, header, mh, dbg) ==
    IF c.st # "ok" THEN c
    ELSE SetsOfKind(ReadNumSets(Ws(ReadWordTo(Ws([c EXCEPT !.ident = << >>]), "ident")),
                                header),
                    t, header, mh, dbg)

LoadStart(e, s) ==
    [s |-> s, e |-> e, st |-> "ok", file_type |-> << >>, Dim |-> -1,
     ident |-> << >>, NumSets |-> -1, NumEntities |-> -1, ent |-> 0,
     g |-> Fresh, v0 |-> Fresh, v1 |-> Fresh, v2 |-> Fresh, v3 |-> Fresh]

FileType == "MFEM sets v1.0"

\* bool mfem_sets_v10
MfemSetsAny(file_type) == TRUE

MfemSetsV10(file_type) == file_type = Str(FileType)

\* the groups of the kinds the dimension asks for
LoadKinds(c, mh, dbg) ==
    LoadEntitySets(
        IF c.Dim > 2
        THEN LoadEntitySets(LoadEntitySets(LoadEntitySets(c,
                 "VERTEX", "vertex_sets", mh, dbg), "EDGE", "edge_sets", mh, dbg),
                 "FACE", "face_sets", mh, dbg)
        ELSE IF c.Dim > 1
        THEN LoadEntitySets(LoadEntitySets(c,
                 "VERTEX", "vertex_sets", mh, dbg), "EDGE", "edge_sets", mh, dbg)
        ELSE LoadEntitySets(c, "VERTEX", "vertex_sets", mh, dbg),
        "ELEMENT", "element_sets", mh, dbg)

\* the end of Load: CopyMeshTables when every kind was read
LoadEnd(c, mh, hp) ==
    IF c.st # "ok" THEN [e |-> c.e, mh |-> mh, hp |-> hp, s |-> c.s, st |-> c.st]
    ELSE CopyMeshTables(c.e, mh, hp) @@ [s |-> c.s, st |-> "ok"]

\* the branch of a v1.0 file: input >> ident >> ws; MFEM_VERIFY; input >>
\* Dim >> ws; the kinds
LoadV10(c, mh, hp, dbg) ==
    IF c.ident # Str("dimension")
    THEN [e |-> c.e, mh |-> mh, hp |-> hp, s |-> c.s, st |-> "fatal"]
    ELSE LoadEnd(LoadKinds(Ws(ReadIntTo(c, "Dim")), mh, dbg), mh, hp)

\* after getline(input, file_type)
LoadByType(c, mh, hp, dbg) ==
    IF ~MfemSetsV10(c.file_type)
    THEN [e |-> c.e, mh |-> mh, hp |-> hp, s |-> c.s, st |-> "ok"]
    ELSE LoadV10(Ws(ReadWordTo(Ws(c), "ident")), mh, hp, dbg)

\* EntitySets::Load on stream s: the instance, the mesh, the heap, the
\* stream and the status it ends with
Load(e, mh, hp, s, dbg) ==
    IF s.fail THEN [e |-> e, mh |-> mh, hp |-> hp, s |-> s, st |-> "fatal"]
    ELSE LoadByType(GetLineTo(Ws(LoadStart(e, s)), "file_type"), mh, hp, dbg)

----------------------------------------------------------------------------
(* EntitySets::Print, as the text it writes.                               *)

RECURSIVE Flatten(_)
Flatten(seqs) == IF seqs = << >> THEN << >> ELSE Head(seqs) \o Flatten(Tail(seqs))

\* what follows an entity on its line: a blank, or endl endl after the last
AfterEntity(g, p) == IF p < Len(g) THEN << >> ELSE <<NL, NL>>

SetsHeader(e, t, header) == <<Word(header), NL, Num(Len(e.sets[t])), NL, NL>>

GroupHeader(e, t, s) == e.set_names_[t][s] \o <<NL, Num(Len(e.sets[t][s])), NL>>

PrintEntitySets(e, t, header) ==
    SetsHeader(e, t, header) \o
    Flatten([s \in 1..Len(e.sets[t]) |->
        GroupHeader(e, t, s) \o
        Flatten([p \in 1..Len(e.sets[t][s]) |->
            <<Num(e.sets[t][s][p])>> \o AfterEntity(e.sets[t][s], p)])])

PrintEdgeSetsOneEnd(e) ==
    SetsHeader(e, "EDGE", "edge_sets") \o
    Flatten([s \in 1..Len(e.sets.EDGE) |->
        GroupHeader(e, "EDGE", s) \o
        Flatten([p \in 1..Len(e.sets.EDGE[s]) |->
            LET edge == e.sets.EDGE[s][p]
            IN  (IF edge < 0 THEN <<Word("bad_edge")>>
                 ELSE <<Num(GetRow(e.edge_vertex_, edge, 0)),
                        Num(GetRow(e.edge_vertex_, edge, 0))>>)
                \o AfterEntity(e.sets.EDGE[s], p)])])

PrintEdgeSets(e) ==
    SetsHeader(e, "EDGE", "edge_sets") \o
    Flatten([s \in 1..Len(e.sets.EDGE) |->
        GroupHeader(e, "EDGE", s) \o
        Flatten([p \in 1..Len(e.sets.EDGE[s]) |->
            LET edge == e.sets.EDGE[s][p]
            IN  (IF edge < 0 THEN <<Word("bad_edge")>>
                 ELSE <<Num(GetRow(e.edge_vertex_, edge, 0)),
                        Num(GetRow(e.edge_vertex_, edge, 1))>>)
                \o AfterEntity(e.sets.EDGE[s], p)])])

PrintFaceSets(e) ==
    SetsHeader(e, "FACE", "face_sets") \o
    Flatten([s \in 1..Len(e.sets.FACE) |->
        GroupHeader(e, "FACE", s) \o
        Flatten([p \in 1..Len(e.sets.FACE[s]) |->
            LET face == e.sets.FACE[s][p]
                numv == e.face_vertex_.I[face + 1] - e.face_vertex_.I[face]
            IN  IF face < 0
                THEN <<Word("bad_face")>> \o AfterEntity(e.sets.FACE[s], p)
                ELSE <<Num(numv - 1)>> \o
                     [k \in 1..numv |-> Num(GetRow(e.face_vertex_, face, k - 1))] \o
                     <<NL>>]) \o
        <<NL>>])

EntitySetsPrint(e, mh) ==
    <<Word(FileType), NL, NL, Word("dimension"), NL, Num(MeshOf(mh).Dim), NL, NL>> \o
    PrintEntitySets(e, "VERTEX", "vertex_sets") \o
    (IF MeshOf(mh).Dim > 1 THEN PrintEdgeSets(e) ELSE << >>) \o
    (IF MeshOf(mh).Dim > 2 THEN PrintFaceSets(e) ELSE << >>) \o
    PrintEntitySets(e, "ELEMENT", "element_sets")

\* the entries of the EDGE and FACE groups that are no row of the table
\* Print reads: GetRow and RowSize read outside the table for them
PrintReadsOutside(e) ==
    \/ \E s \in 1..Len(e.sets.EDGE) : \E p \in 1..Len(e.sets.EDGE[s]) :
           e.sets.EDGE[s][p] >= e.edge_vertex_.size
    \/ \E s \in 1..Len(e.sets.FACE) : \E p \in 1..Len(e.sets.FACE[s]) :
           e.sets.FACE[s][p] >= e.face_vertex_.size

----------------------------------------------------------------------------
(* Lookups of EntitySets.  A lookup answers with [st, v]: the status it    *)
(* ends with and the value it returns.                                     *)

GetSetName(e, t, s) == e.set_names_[t][s + 1]

\* MFEM_ASSERT(mit != end) is compiled in MFEM_DEBUG builds only; the other
\* builds read mit->second of the end iterator
GetSetIndexSentinel(e, t, name, dbg) ==
    IF name \in DOMAIN e.set_index_by_name_[t]
    THEN [st |-> "ok", v |-> e.set_index_by_name_[t][name]]
    ELSE [st |-> "ok", v |-> -1]

GetSetIndex(e, t, name, dbg) ==
    IF name \in DOMAIN e.set_index_by_name_[t]
    THEN [st |-> "ok", v |-> e.set_index_by_name_[t][name]]
    ELSE [st |-> IF dbg THEN "fatal" ELSE "undefined", v |-> Fresh]

GetNumEntities(e, t, s) == Len(e.sets[t][s + 1])

GetEntityIndex(e, t, s, i) == e.sets[t][s + 1][i + 1]

\* sets_[t][s] for an ordinal s the kind does not have reads outside of
\* sets_[t]
GetNumEntitiesByName(e, t, name, dbg) ==
    LET r == GetSetIndex(e, t, name, dbg)
    IN  IF r.st # "ok" THEN r
        ELSE IF r.v \notin 0..(GetNumSets(e, t) - 1) THEN [st |-> "undefined", v |-> Fresh]
        ELSE [st |-> "ok", v |-> GetNumEntities(e, t, r.v)]

\* sets_[t][s][i] for a position i the group does not have reads outside
\* of the group
GetEntityIndexByName(e, t, name, i, dbg) ==
    LET r == GetSetIndex(e, t, name, dbg)
    IN  IF r.st # "ok" THEN r
        ELSE IF r.v \notin 0..(GetNumSets(e, t) - 1) THEN [st |-> "undefined", v |-> Fresh]
        ELSE IF i >= GetNumEntities(e, t, r.v) THEN [st |-> "undefined", v |-> Fresh]
        ELSE [st |-> "ok", v |-> GetEntityIndex(e, t, r.v, i)]

----------------------------------------------------------------------------
(* Copy construction.                                                      *)

\* set_index_by_name_[t][name] = s for s = 0, 1, ..: the last group of a
\* name is the one the map keeps
IndexByName(names) ==
    [name \in {names[p] : p \in 1..Len(names)} |->
        (CHOOSE p \in 1..Len(names) :
            /\ names[p] = name
            /\ \A q \in (p + 1)..Len(names) : names[q] # name) - 1]

CopyEntitySets(e, src, t) ==
    [e EXCEPT !.sets[t] = [s \in 1..GetNumSets(src, t) |->
                              [i \in 1..GetNumEntities(src, t, s - 1) |->
                                  GetEntityIndex(src, t, s - 1, i - 1)]],
              !.set_names_[t] = [s \in 1..GetNumSets(src, t) |-> GetSetName(src, t, s - 1)],
              !.set_index_by_name_[t] =
                  IndexByName([s \in 1..GetNumSets(src, t) |-> GetSetName(src, t, s - 1)])]

\* EntitySets(const EntitySets &): the tables are copies of the tables of
\* src, the counts are those of the mesh
EntitySetsCopyCtor(src, mh, hp) ==
    LET e0 == EntitySetsCtor(mh)
        e1 == CopyEntitySets(e0, src, "VERTEX")
        e2 == CopyEntitySets(e1, src, "EDGE")
        e3 == CopyEntitySets(e2, src, "FACE")
        e4 == CopyEntitySets(e3, src, "ELEMENT")
        e5 == [e4 EXCEPT !.edge_vertex_ = src.edge_vertex_,
                         !.face_vertex_ = src.face_vertex_,
                         !.face_edge_   = src.face_edge_]
        w1 == IF src.ptr.edge_vertex # 0
              THEN [e |-> [e5 EXCEPT !.ptr.edge_vertex = NewTable(hp)], hp |-> Alloc(hp)]
              ELSE [e |-> e5, hp |-> hp]
        w2 == IF src.ptr.face_vertex # 0
              THEN [e |-> [w1.e EXCEPT !.ptr.face_vertex = NewTable(w1.hp)],
                    hp |-> Alloc(w1.hp)]
              ELSE w1
    IN  IF src.ptr.face_edge # 0
        THEN [e |-> [w2.e EXCEPT !.ptr.face_edge = NewTable(w2.hp)], hp |-> Alloc(w2.hp)]
        ELSE w2

----------------------------------------------------------------------------
(* NCEntitySets(const Mesh &, const NCMesh &): the groups of an EntitySets *)
(* as vertex tuples, and EntitySets(Mesh &, NCMesh &), which builds the    *)
(* groups back from them.                                                  *)

RowSize(tab, i) == tab.I[i + 1] - tab.I[i]

\* ncmesh.nodes.FindId(v0, v1): negative when no edge joins v0 and v1
FindId(mh, v0, v1) == DSParen(MeshOf(mh).v_to_v, v0, v1)

\* the four entries of face: no swap
NCFacePlain(e, mh, face) ==
    LET v == [k \in 0..(RowSize(e.face_vertex_, face) - 1) |->
                 GetRow(e.face_vertex_, face, k)]
    IN  IF RowSize(e.face_vertex_, face) > 3 THEN <<v[0], v[1], v[2], v[3]>>
        ELSE <<v[0], v[1], v[2], -1>>

\* the four entries of face: entry 1 or entry 3 changes places with entry 2
\* when no edge joins it to v[0]
NCFace(e, mh, face) ==
    LET v == [k \in 0..(RowSize(e.face_vertex_, face) - 1) |->
                 GetRow(e.face_vertex_, face, k)]
    IN  IF RowSize(e.face_vertex_, face) > 3
        THEN IF FindId(mh, v[0], v[1]) < 0 THEN <<v[0], v[2], v[1], v[3]>>
             ELSE IF FindId(mh, v[0], v[3]) < 0 THEN <<v[0], v[1], v[3], v[2]>>
             ELSE <<v[0], v[1], v[2], v[3]>>
        ELSE <<v[0], v[1], v[2], -1>>

NCEntitySetsCtor(e, mh) ==
    [built |-> TRUE,
     sets  |->
        [VERTEX  |-> [s \in 1..GetNumSets(e, "VERTEX") |->
                         [i \in 1..GetNumEntities(e, "VERTEX", s - 1) |->
                             GetEntityIndex(e, "VERTEX", s - 1, i - 1)]],
         EDGE    |-> [s \in 1..GetNumSets(e, "EDGE") |->
                         [p \in 1..(2 * GetNumEntities(e, "EDGE", s - 1)) |->
                             GetRow(e.edge_vertex_,
                                    GetEntityIndex(e, "EDGE", s - 1, (p - 1) \div 2),
                                    (p - 1) % 2)]],
         FACE    |-> [s \in 1..GetNumSets(e, "FACE") |->
                         [p \in 1..(4 * GetNumEntities(e, "FACE", s - 1)) |->
                             NCFace(e, mh,
                                    GetEntityIndex(e, "FACE", s - 1, (p - 1) \div 4))
                                 [((p - 1) % 4) + 1]]],
         ELEMENT |-> [s \in 1..GetNumSets(e, "ELEMENT") |->
                         [i \in 1..GetNumEntities(e, "ELEMENT", s - 1) |->
                             GetEntityIndex(e, "ELEMENT", s - 1, i - 1)]]],
     set_names_ |-> [t \in {"VERTEX", "EDGE", "FACE", "ELEMENT"} |->
                        [s \in 1..GetNumSets(e, t) |-> GetSetName(e, t, s - 1)]],
     set_index_by_name_ |->
         [t \in {"VERTEX", "EDGE", "FACE", "ELEMENT"} |->
             IndexByName([s \in 1..GetNumSets(e, t) |-> GetSetName(e, t, s - 1)])],
     entity_size_ |-> [VERTEX |-> 1, EDGE |-> 2, FACE |-> 4, ELEMENT |-> 1]]

\* NCEntitySets::GetNumEntities(t, s)
NCGetNumEntities(nc, t, s) == Len(nc.sets[t][s + 1]) \div nc.entity_size_[t]

\* NCMesh::GetRefinedEdges, GetRefinedFaces, GetRefinedElements on an NCMesh
\* without refinements: the entity of the mesh itself, nothing for vertices
\* that name none
GetRefined(mh, t, inds) ==
    LET x == IF t = "EDGE" THEN DSParen(MeshOf(mh).v_to_v, inds[1], inds[2])
             ELSE IF t = "FACE"
                  THEN FaceIndexOf(MeshOf(mh).faces, Range(inds) \ {-1})
             ELSE inds[1]
    IN  IF x < 0 THEN << >> ELSE <<x>>

\* EntitySets::BuildEntitySets for kind t
BuildEntitySets(e, mh, nc, t) ==
    [e EXCEPT
       !.sets[t] =
           [s \in 1..Len(nc.sets[t]) |->
               IF t = "VERTEX" THEN nc.sets[t][s]
               ELSE Flatten([i \in 1..NCGetNumEntities(nc, t, s - 1) |->
                        GetRefined(mh, t,
                            [k \in 1..nc.entity_size_[t] |->
                                nc.sets[t][s][nc.entity_size_[t] * (i - 1) + k]])])],
       !.set_names_[t] = nc.set_names_[t],
       !.set_index_by_name_[t] = IndexByName(nc.set_names_[t])]

\* EntitySets(Mesh &, NCMesh &)
EntitySetsNCCtor(mh, nc) ==
    BuildEntitySets(BuildEntitySets(BuildEntitySets(BuildEntitySets(
        EntitySetsCtor(mh), mh, nc, "VERTEX"), mh, nc, "EDGE"), mh, nc, "FACE"),
        mh, nc, "ELEMENT")

\* the arguments of a lookup by name: kind, name and position
NoArg == [t |-> "", name |-> "", i |-> 0]

\* no NCEntitySets has been built
NoNCEntitySets ==
    [built |-> FALSE, sets |-> NoSets, set_names_ |-> NoSets,
     set_index_by_name_ |-> NoIndex,
     entity_size_ |-> [VERTEX |-> 0, EDGE |-> 0, FACE |-> 0, ELEMENT |-> 0]]

NoRefine(e) == [op |-> "none", pre |-> e, input |-> NotOpen, s |-> NotOpen, arg |-> NoArg, ret |-> 0]

----------------------------------------------------------------------------
(* The calls on T.  mfem_error ends the program: nothing runs once status  *)
(* is "fatal".  A call whose behaviour the language leaves undefined puts  *)
(* the program in status "undefined", about which nothing is claimed.      *)

NoCall(tab) ==
    [op |-> "none", i |-> 0, j |-> 0, ret |-> 0, err |-> FALSE,
     seen |-> FALSE, pre |-> tab]

NoOut == [op |-> "none", arg |-> 0, R |-> NullTable, R2 |-> NullTable,
          err |-> FALSE]

\* the parts of the state a specification does not use
TableIdle == T = NullTable /\ tLast = NoCall(NullTable) /\ firstSlot = << >>

\* no build of T is under way
NoBuild == [phase |-> "none", n |-> 0, plan |-> << >>, counted |-> {}, pos |-> 0,
            arr |-> << >>, ncols |-> 0, pre |-> NullTable]

AlgIdle == A = NullTable /\ B = NullTable /\ out = NoOut /\ build = NoBuild

NoDSCall(d) ==
    [op |-> "none", r |-> 0, c |-> 0, ret |-> 0, seen |-> FALSE, pre |-> d]

DSIdle == ds = DSTableCtor(0) /\ dsLast = NoDSCall(ds) /\ dsFirst = << >>

SetsIdle ==
    /\ mesh = FreshMesh(1)
    /\ es = EntitySetsCtor(mesh)
    /\ esLast = NoRefine(es)
    /\ esFirst = [e |-> es, gen |-> 0]
    /\ ncent = NoNCEntitySets
    /\ heap = NoHeap

\* rows given as sequences of columns, laid out as I and J
RECURSIVE RowsLen(_, _)
RowsLen(rows, i) == IF i = 0 THEN 0 ELSE RowsLen(rows, i - 1) + Len(rows[i])

RECURSIVE RowsCat(_, _)
RowsCat(rows, i) == IF i = 0 THEN << >> ELSE RowsCat(rows, i - 1) \o rows[i]

TableOfRows(rows) ==
    LET n == Len(rows)
        cat == RowsCat(rows, n)
    IN  [size |-> n,
         I    |-> [i \in 0..n |-> RowsLen(rows, i)],
         J    |-> [k \in 0..(Len(cat) - 1) |-> cat[k + 1]]]

SeqsUpTo(S, n) == UNION {[1..m -> S] : m \in 0..n}

\* Table(dim, connections_per_row)
InitFixed ==
    /\ mfemDebug \in BOOLEAN
    /\ status = "ok"
    /\ \E dim \in 0..MaxRows, cpr \in 0..MaxDeg :
         /\ dim * cpr <= MaxNnz
         /\ T = TableCtor(dim, cpr)
    /\ tLast = NoCall(T)
    /\ firstSlot = << >>
    /\ AlgIdle
    /\ DSIdle
    /\ SetsIdle

\* SetDims(rows, nnz), I and J then filled by the caller
InitExplicit ==
    /\ mfemDebug \in BOOLEAN
    /\ status = "ok"
    /\ \E rows \in SeqsUpTo(SeqsUpTo(Cols, MaxDeg), MaxRows) :
         /\ RowsLen(rows, Len(rows)) <= MaxNnz
         /\ T = TableOfRows(rows)
    /\ tLast = NoCall(T)
    /\ firstSlot = << >>
    /\ AlgIdle
    /\ DSIdle
    /\ SetsIdle

PushOp ==
    /\ status = "ok"
    /\ \E i \in -1..T.size, j \in Cols :
         IF i >= T.size \/ i < 0
         THEN /\ status' = IF mfemDebug THEN "fatal" ELSE "undefined"
              /\ tLast' = [op |-> "Push", i |-> i, j |-> j, ret |-> -1,
                           err |-> TRUE, seen |-> FALSE, pre |-> T]
              /\ UNCHANGED <<T, firstSlot>>
         ELSE LET r == Push(T, i, j)
              IN  /\ T' = r.T
                  /\ status' = IF r.err THEN "fatal" ELSE "ok"
                  /\ tLast' = [op |-> "Push", i |-> i, j |-> j, ret |-> r.ret,
                               err |-> r.err,
                               seen |-> (<<i, j>> \in DOMAIN firstSlot),
                               pre |-> T]
                  /\ firstSlot' = IF r.err \/ <<i, j>> \in DOMAIN firstSlot
                                  THEN firstSlot
                                  ELSE firstSlot @@ (<<i, j>> :> r.ret)
    /\ UNCHANGED <<mfemDebug, algVars, dsVars, setsVars>>

ParenOp ==
    /\ status = "ok"
    /\ \E i \in -1..T.size, j \in Cols :
         tLast' = [op |-> "Paren", i |-> i, j |-> j,
                   ret |-> OperatorParen(T, i, j), err |-> FALSE,
                   seen |-> FALSE, pre |-> T]
    /\ UNCHANGED <<mfemDebug, status, T, firstSlot, algVars, dsVars, setsVars>>

FinalizeOp ==
    /\ status = "ok"
    /\ LET dry == Finalize(T, << >>)
       IN  \E garbage \in [dry.n..(dry.sum - 1) -> Cols] :
             LET r == Finalize(T, garbage)
             IN  /\ T' = r.T
                 /\ status' = IF r.err /\ mfemDebug THEN "fatal" ELSE "ok"
                 /\ tLast' = [op |-> "Finalize", i |-> 0, j |-> 0, ret |-> 0,
                              err |-> r.err, seen |-> FALSE, pre |-> T]
    /\ UNCHANGED <<mfemDebug, firstSlot, algVars, dsVars, setsVars>>

\* fixed-degree allocation, then Push and operator() calls
NextPush == PushOp \/ ParenOp

SpecPush == InitFixed /\ [][NextPush]_vars

\* the same with Finalize
NextTable == PushOp \/ ParenOp \/ FinalizeOp

SpecTable == InitFixed /\ [][NextTable]_vars


\* any Table, then Finalize
SpecExplicit == InitExplicit /\ [][FinalizeOp]_vars

----------------------------------------------------------------------------
(* The two-phase build, and Transpose of an Array<int>. *)

\* Table::MakeI
MakeI(tab, nrows) ==
    LET t0 == SetDims(tab, nrows, 0)
    IN  [t0 EXCEPT !.I = TrZero(t0.I, 0, nrows)]

\* Table::AddAColumnInRow(r): one more entry is counted for row r
AddAColumnInRow(tab, r) == [tab EXCEPT !.I[r] = @ + 1]

\* for (k = i = 0; i < size; i++) j = I[i], I[i] = k, k += j;
RECURSIVE MakeJLoop(_, _, _, _)
MakeJLoop(Iarr, i, k, size) ==
    IF i >= size THEN [I |-> Iarr, k |-> k]
    ELSE MakeJLoop([Iarr EXCEPT ![i] = k], i + 1, k + Iarr[i], size)

\* Table::MakeJ
MakeJ(tab) ==
    LET r == MakeJLoop(tab.I, 0, 0, tab.size)
    IN  [tab EXCEPT !.I = [r.I EXCEPT ![tab.size] = r.k], !.J = NewInts(r.k)]

\* for (i = 0; i < nc; i++) jp[i] = c[i];
RECURSIVE AddConnectionsLoop(_, _, _, _)
AddConnectionsLoop(Jarr, jp, c, i) ==
    IF i >= Len(c) THEN Jarr
    ELSE AddConnectionsLoop([Jarr EXCEPT ![jp + i] = c[i + 1]], jp, c, i + 1)

\* Table::AddConnections(r, c, nc), c as a sequence of nc columns
AddConnections(tab, r, c) ==
    [tab EXCEPT !.J = AddConnectionsLoop(tab.J, tab.I[r], c, 0),
                !.I[r] = @ + Len(c)]

\* Table::AddConnection(r, c)
AddConnection(tab, r, c) == AddConnections(tab, r, <<c>>)

\* the offsets left as the cursors of the second phase
ShiftUpINone(tab) == tab

\* Table::ShiftUpI
ShiftUpI(tab) ==
    [tab EXCEPT !.I = [ShiftUp(tab.I, tab.size) EXCEPT ![0] = 0]]

\* Array<int>::Max of an array that is not empty
RECURSIVE ArrayMax(_, _, _)
ArrayMax(arr, i, max) ==
    IF i > Len(arr) THEN max
    ELSE ArrayMax(arr, i + 1, IF arr[i] > max THEN arr[i] ELSE max)

RECURSIVE TrArrayCount(_, _, _)
TrArrayCount(tab, arr, i) ==
    IF i >= Len(arr) THEN tab
    ELSE TrArrayCount(AddAColumnInRow(tab, arr[i + 1]), arr, i + 1)

RECURSIVE TrArrayFill(_, _, _)
TrArrayFill(tab, arr, i) ==
    IF i >= Len(arr) THEN tab
    ELSE TrArrayFill(AddConnection(tab, arr[i + 1], i), arr, i + 1)

\* Transpose(const Array<int> &A, Table &At, int _ncols_A)
TransposeArray(arr, At, ncolsArg) ==
    ShiftUpI(TrArrayFill(MakeJ(TrArrayCount(
        MakeI(At, IF ncolsArg < 0 THEN ArrayMax(arr, 2, arr[1]) + 1 ELSE ncolsArg),
        arr, 0)), arr, 0))

----------------------------------------------------------------------------
(* The calls of Transpose and Mult.  The operands hold columns 0..MaxCol   *)
(* and no sentinel; the output table is passed in as a default-constructed *)
(* Table or as one that was used before.                                   *)

DrawnTables(maxRows, maxNnz) ==
    {TableOfRows(rows) : rows \in
        {r \in SeqsUpTo(SeqsUpTo(0..MaxCol, MaxDeg), maxRows) :
            RowsLen(r, Len(r)) <= maxNnz}}

OutTables == {NullTable, TableCtor(1, 1)}

InitTranspose ==
    /\ mfemDebug = FALSE
    /\ status = "ok"
    /\ TableIdle
    /\ A \in DrawnTables(MaxRows, MaxNnz)
    /\ B = NullTable
    /\ out = NoOut
    /\ build = NoBuild
    /\ DSIdle
    /\ SetsIdle

\* the operands of Mult with at most n entries
MultOperands == [n \in 0..MultNnz |-> DrawnTables(MultRows, n)]

InitMult ==
    /\ mfemDebug = FALSE
    /\ status = "ok"
    /\ TableIdle
    /\ A \in MultOperands[MultNnz]
    /\ B \in MultOperands[MultNnz - A.I[A.size]]
    /\ out = NoOut
    /\ build = NoBuild
    /\ DSIdle
    /\ SetsIdle
    /\ out = NoOut

\* Transpose(A, At, ncols): a column of A at or beyond ncols is counted
\* outside i_At
TransposeOp ==
    /\ status = "ok"
    /\ \E ncols \in -1..(MaxCol + 2), At \in OutTables :
         IF ncols >= 0 /\ ncols < Width(A)
         THEN /\ status' = "undefined"
              /\ out' = [op |-> "Transpose", arg |-> ncols, R |-> At,
                         R2 |-> NullTable, err |-> TRUE]
         ELSE /\ status' = "ok"
              /\ out' = [op |-> "Transpose", arg |-> ncols,
                         R |-> Transpose(A, At, ncols),
                         R2 |-> NullTable, err |-> FALSE]
    /\ UNCHANGED <<mfemDebug, tableVars, A, B, build, dsVars, setsVars>>

\* Transpose(At, Att): the transpose of the table the last call produced,
\* with the column count defaulted to its Width
TransposeBackOp ==
    /\ status = "ok"
    /\ out.op = "Transpose"
    /\ \E Att \in OutTables :
         out' = [out EXCEPT !.op = "TransposeBack",
                            !.R2 = Transpose(out.R, Att, -1)]
    /\ UNCHANGED <<mfemDebug, status, tableVars, A, B, build, dsVars, setsVars>>

MultOp ==
    /\ status = "ok"
    /\ \E Ctab \in OutTables :
         LET r == Mult(A, B, Ctab)
         IN  /\ out' = [op |-> "Mult", arg |-> 0, R |-> r.C, R2 |-> NullTable,
                        err |-> r.err]
             /\ status' = IF r.err THEN "fatal" ELSE "ok"
    /\ UNCHANGED <<mfemDebug, tableVars, A, B, build, dsVars, setsVars>>

NextTranspose == TransposeOp \/ TransposeBackOp

SpecTranspose == InitTranspose /\ [][NextTranspose]_vars

SpecMult == InitMult /\ [][MultOp]_vars

----------------------------------------------------------------------------
(* The two-phase build of T, call by call.  The plan is the list of the    *)
(* entries <<row, column>> in the order of the second phase; the first     *)
(* phase counts them in any order.                                         *)

BuildLen == 3       \* a table is built of at most BuildLen entries

Plans(n) == SeqsUpTo((0..(n - 1)) \X (0..MaxCol), BuildLen)

InitBuild ==
    /\ mfemDebug = FALSE
    /\ status = "ok"
    /\ T \in OutTables
    /\ tLast = NoCall(NullTable)
    /\ firstSlot = << >>
    /\ A = NullTable
    /\ B = NullTable
    /\ out = NoOut
    /\ \E n \in 0..MaxRows : \E plan \in Plans(n) :
           build = [NoBuild EXCEPT !.phase = "new", !.n = n, !.plan = plan \o << >>,
                                   !.pre = T]
    /\ DSIdle
    /\ SetsIdle

BuildStep(tab, b) ==
    /\ T' = tab
    /\ build' = b
    /\ UNCHANGED <<mfemDebug, status, tLast, firstSlot, A, B, out, dsVars, setsVars>>

MakeIOp ==
    /\ build.phase = "new"
    /\ BuildStep(MakeI(T, build.n), [build EXCEPT !.phase = "count"])

AddAColumnInRowOp ==
    /\ build.phase = "count"
    /\ \E k \in (1..Len(build.plan)) \ build.counted :
           BuildStep(AddAColumnInRow(T, build.plan[k][1]),
                     [build EXCEPT !.counted = @ \cup {k}])

MakeJOp ==
    /\ build.phase = "count"
    /\ build.counted = 1..Len(build.plan)
    /\ BuildStep(MakeJ(T), [build EXCEPT !.phase = "fill"])

AddConnectionOp ==
    /\ build.phase = "fill"
    /\ build.pos < Len(build.plan)
    /\ BuildStep(AddConnection(T, build.plan[build.pos + 1][1],
                               build.plan[build.pos + 1][2]),
                 [build EXCEPT !.pos = @ + 1])

ShiftUpIOp ==
    /\ build.phase = "fill"
    /\ build.pos = Len(build.plan)
    /\ BuildStep(ShiftUpI(T), [build EXCEPT !.phase = "built"])

\* Transpose(A, At, ncols) of an array; how the largest entry of an empty
\* array is found is not part of the Table sources, so the column count is
\* given for an empty array; an entry at or beyond ncols is counted outside
\* of I
TransposeArrayOp ==
    /\ build.phase = "new"
    /\ build.plan = << >>
    /\ build.n = 0
    /\ \E arr \in SeqsUpTo(0..MaxCol, BuildLen), ncols \in -1..(MaxCol + 2) :
           /\ arr = << >> => ncols >= 0
           /\ build' = [build EXCEPT !.phase = "array", !.arr = arr \o << >>,
                                     !.ncols = ncols]
           /\ IF ncols >= 0 /\ \E i \in 1..Len(arr) : arr[i] >= ncols
              THEN status' = "undefined" /\ UNCHANGED T
              ELSE T' = TransposeArray(arr, T, ncols) /\ UNCHANGED status
    /\ UNCHANGED <<mfemDebug, tLast, firstSlot, A, B, out, dsVars, setsVars>>

NextBuild ==
    \/ MakeIOp
    \/ AddAColumnInRowOp
    \/ MakeJOp
    \/ AddConnectionOp
    \/ ShiftUpIOp
    \/ TransposeArrayOp

SpecBuild == InitBuild /\ [][NextBuild]_vars

----------------------------------------------------------------------------
(* The calls on the DSTable.  Push_ with a row outside [0, NumRows) and    *)
(* Index with a row below 0 are mfem_error under MFEM_DEBUG and a read     *)
(* outside Rows otherwise.                                                 *)

InitDS ==
    /\ mfemDebug \in BOOLEAN
    /\ status = "ok"
    /\ TableIdle
    /\ AlgIdle
    /\ SetsIdle
    /\ \E nrows \in 0..DSRows : ds = DSTableCtor(nrows)
    /\ dsLast = NoDSCall(ds)
    /\ dsFirst = << >>

WasPushed(r, c) == \E n \in 1..Len(dsFirst) : dsFirst[n].r = r /\ dsFirst[n].c = c

PushDSOp ==
    /\ status = "ok"
    /\ \E r \in -1..ds.NumRows, c \in 0..(DSCols - 1) :
         IF r < 0 \/ r >= ds.NumRows
         THEN /\ status' = IF mfemDebug THEN "fatal" ELSE "undefined"
              /\ dsLast' = [op |-> "Push_", r |-> r, c |-> c, ret |-> -1,
                            seen |-> FALSE, pre |-> ds]
              /\ UNCHANGED <<ds, dsFirst>>
         ELSE LET p == Push_(ds, r, c)
              IN  /\ p.ds.NumEntries <= DSEntries
                  /\ ds' = p.ds
                  /\ dsLast' = [op |-> "Push_", r |-> r, c |-> c, ret |-> p.ret,
                                seen |-> WasPushed(r, c), pre |-> ds]
                  /\ dsFirst' = IF WasPushed(r, c) THEN dsFirst
                                ELSE Append(dsFirst, [r |-> r, c |-> c, ret |-> p.ret])
                  /\ UNCHANGED status
    /\ UNCHANGED <<mfemDebug, tableVars, algVars, setsVars>>

IndexOp ==
    /\ status = "ok"
    /\ \E r \in -1..(ds.NumRows + 1), c \in 0..(DSCols - 1) :
         IF r < 0
         THEN /\ status' = IF mfemDebug THEN "fatal" ELSE "undefined"
              /\ dsLast' = [op |-> "Index", r |-> r, c |-> c, ret |-> 0,
                            seen |-> FALSE, pre |-> ds]
         ELSE /\ dsLast' = [op |-> "Index", r |-> r, c |-> c,
                            ret |-> Index(ds, r, c),
                            seen |-> WasPushed(r, c), pre |-> ds]
              /\ UNCHANGED status
    /\ UNCHANGED <<mfemDebug, tableVars, algVars, ds, dsFirst, setsVars>>

NextDS == PushDSOp \/ IndexOp

SpecDS == InitDS /\ [][NextDS]_vars

----------------------------------------------------------------------------
(* The EntitySets of a mesh.  It is constructed on a mesh without groups   *)
(* and loaded once from a stream; the mesh tells it of a uniform           *)
(* refinement once it has refined itself.                                  *)

\* the names the files give their groups
Names == {"a", "b"}

\* a vertex pair that is no edge and four vertices that are no face of any
\* start mesh
NoEdge == <<0, 2>>
NoFace == <<0, 1, 6, 7>>

\* the lists of named groups over ents that cost at most c, a group costing
\* one more than its length
RECURSIVE GroupLists(_, _)
GroupLists(ents, c) ==
    IF c <= 0 THEN {<< >>}
    ELSE {<< >>} \cup
         UNION {{<<[name |-> nm, ents |-> g]>> \o rest :
                    nm \in Names, g \in [1..len -> ents],
                    rest \in GroupLists(ents, c - 1 - len)} :
                len \in 0..(c - 1)}

RECURSIVE LoadCost(_)
LoadCost(groups) ==
    IF groups = << >> THEN 0
    ELSE 1 + Len(Head(groups).ents) + LoadCost(Tail(groups))

Ids(count) == 0..(Min2(count, MaxId) - 1)

\* the files for mesh m: what they say of each kind, edges as vertex pairs
\* and faces as vertex quadruples; edge groups for dimension > 1, face
\* groups for dimension > 2
Files(m) ==
    UNION {UNION {UNION {
        {[VERTEX |-> V, EDGE |-> E, FACE |-> F, ELEMENT |-> L] :
            V \in GroupLists(Ids(m.NV),
                             MaxLoad - LoadCost(L) - LoadCost(E) - LoadCost(F))} :
        F \in IF m.Dim > 2
              THEN GroupLists({m.faces[n + 1] : n \in Ids(Len(m.faces))} \cup {NoFace},
                              MaxLoad - LoadCost(L) - LoadCost(E))
              ELSE {<< >>}} :
        E \in IF m.Dim > 1
              THEN GroupLists({m.edges[n + 1] : n \in Ids(Len(m.edges))} \cup {NoEdge},
                              MaxLoad - LoadCost(L))
              ELSE {<< >>}} :
        L \in GroupLists(Ids(Len(m.elems)), MaxLoad)}

\* an entity as the file format writes it
EntityText(t, x) ==
    IF t = "EDGE" THEN <<Num(x[1]), Num(x[2])>>
    ELSE IF t = "FACE" THEN <<Num(Len(x) - 1)>> \o [k \in 1..Len(x) |-> Num(x[k])]
    ELSE <<Num(x)>>

\* the groups of one kind: header, number of groups, and for each group its
\* name, its size and its entities on one line, a blank line after each
SetsText(t, header, groups) ==
    <<Word(header), NL, Num(Len(groups)), NL, NL>> \o
    Flatten([s \in 1..Len(groups) |->
        <<Word(groups[s].name), NL, Num(Len(groups[s].ents)), NL>> \o
        Flatten([p \in 1..Len(groups[s].ents) |-> EntityText(t, groups[s].ents[p])]) \o
        <<NL, NL>>])

FileText(first, dim, file) ==
    <<Word(first), NL, NL, Word("dimension"), NL, Num(dim), NL, NL>> \o
    SetsText("VERTEX", "vertex_sets", file.VERTEX) \o
    (IF dim > 1 THEN SetsText("EDGE", "edge_sets", file.EDGE) ELSE << >>) \o
    (IF dim > 2 THEN SetsText("FACE", "face_sets", file.FACE) ELSE << >>) \o
    SetsText("ELEMENT", "element_sets", file.ELEMENT)

\* the streams Load is called with: the files of the mesh, a file of another
\* type, a file without text, and a stream that is not open
OtherType == "MFEM mesh v1.0"

Streams(m) ==
    {OpenStream(FileText(FileType, m.Dim, f)) : f \in Files(m)} \cup
    {OpenStream(FileText(OtherType, m.Dim,
                         [VERTEX |-> <<[name |-> "a", ents |-> <<0>>]>>, EDGE |-> << >>,
                          FACE |-> << >>, ELEMENT |-> << >>])),
     OpenStream(<< >>), NotOpen}

StartStreams == [id \in 1..Len(StartMeshes) |-> Streams(StartMeshes[id])]

InitSets ==
    /\ mfemDebug = FALSE
    /\ status = "ok"
    /\ TableIdle
    /\ AlgIdle
    /\ DSIdle
    /\ \E id \in 1..Len(StartMeshes) : mesh = FreshMesh(id)
    /\ es = EntitySetsCtor(mesh)
    /\ esLast = NoRefine(es)
    /\ esFirst = [e |-> es, gen |-> 0]
    /\ ncent = NoNCEntitySets
    /\ heap = NoHeap

\* EntitySets::Load, called once on the instance as constructed
LoadOp ==
    /\ status = "ok"
    /\ esLast.op = "none"
    /\ \E s \in StartStreams[mesh.id] :
           LET r == Load(es, mesh, heap, s, mfemDebug)
           IN  /\ es' = r.e
               /\ mesh' = r.mh
               /\ heap' = r.hp
               /\ status' = r.st
               /\ esLast' = [op |-> "load", pre |-> es, input |-> s, s |-> r.s, arg |-> NoArg, ret |-> 0]
               /\ esFirst' = [e |-> r.e, gen |-> mesh.gen]
    /\ UNCHANGED <<mfemDebug, tableVars, algVars, dsVars, ncent>>

\* Print to a text, the end of the instance, and Load of that text by a new
\* instance on the same mesh
ReloadOp ==
    /\ status = "ok"
    /\ esLast.op # "none"
    /\ mesh.told
    /\ IF PrintReadsOutside(es)
       THEN /\ status' = "undefined"
            /\ esLast' = [op |-> "reload", pre |-> es, input |-> NotOpen, s |-> NotOpen, arg |-> NoArg, ret |-> 0]
            /\ UNCHANGED <<es, mesh, heap, esFirst>>
       ELSE LET s == OpenStream(EntitySetsPrint(es, mesh))
                r == Load(EntitySetsCtor(mesh), mesh, Destroy(es, heap), s, mfemDebug)
            IN  /\ es' = r.e
                /\ mesh' = r.mh
                /\ heap' = r.hp
                /\ status' = r.st
                /\ esLast' = [op |-> "reload", pre |-> es, input |-> s, s |-> r.s, arg |-> NoArg, ret |-> 0]
                /\ esFirst' = [e |-> r.e, gen |-> mesh.gen]
    /\ UNCHANGED <<mfemDebug, tableVars, algVars, dsVars, ncent>>

\* the mesh deletes the tables it keeps
DeleteTables(mh, hp) ==
    Delete(Delete(Delete(hp, mh.slot.edge_vertex), mh.slot.face_vertex),
           mh.slot.face_edge)

\* Mesh::UniformRefinement up to its call of EntitySets: the tables of the
\* generation before are deleted
MeshRefineOp ==
    /\ status = "ok"
    /\ mesh.told
    /\ esLast.op # "none"
    /\ mesh.gen + 1 < Len(MeshGenerations[mesh.id])
    /\ mesh' = [mesh EXCEPT !.gen = @ + 1, !.told = FALSE, !.slot = NoTables,
                            !.data = MeshData(mesh.id, mesh.gen + 1, mesh.order)]
    /\ heap' = DeleteTables(mesh, heap)
    /\ UNCHANGED <<mfemDebug, status, tableVars, algVars, dsVars, es, esLast, esFirst, ncent>>

QuadUniformRefinementOp ==
    /\ status = "ok"
    /\ ~mesh.told
    /\ MeshOf(mesh).Dim = 2
    /\ esLast' = [op |-> "quad", pre |-> es, input |-> NotOpen, s |-> NotOpen, arg |-> NoArg, ret |-> 0]
    /\ IF RowsExist(es.sets.EDGE, es.edge_vertex_)
       THEN LET r == QuadUniformRefinement(es, mesh, heap)
            IN  /\ es' = r.e
                /\ mesh' = [r.mh EXCEPT !.told = TRUE]
                /\ heap' = r.hp
                /\ UNCHANGED status
       ELSE /\ status' = "undefined"
            /\ mesh' = [mesh EXCEPT !.told = TRUE]
            /\ UNCHANGED <<es, heap>>
    /\ UNCHANGED <<mfemDebug, tableVars, algVars, dsVars, esFirst, ncent>>

HexUniformRefinementOp ==
    /\ status = "ok"
    /\ ~mesh.told
    /\ MeshOf(mesh).Dim = 3
    /\ esLast' = [op |-> "hex", pre |-> es, input |-> NotOpen, s |-> NotOpen, arg |-> NoArg, ret |-> 0]
    /\ IF /\ RowsExist(es.sets.EDGE, es.edge_vertex_)
          /\ RowsExist(es.sets.FACE, es.face_vertex_)
       THEN LET r == HexUniformRefinement(es, mesh, heap)
            IN  /\ es' = r.e
                /\ mesh' = [r.mh EXCEPT !.told = TRUE]
                /\ heap' = r.hp
                /\ UNCHANGED status
       ELSE /\ status' = "undefined"
            /\ mesh' = [mesh EXCEPT !.told = TRUE]
            /\ UNCHANGED <<es, heap>>
    /\ UNCHANGED <<mfemDebug, tableVars, algVars, dsVars, esFirst, ncent>>

NextRefine ==
    \/ LoadOp
    \/ ReloadOp
    \/ MeshRefineOp
    \/ QuadUniformRefinementOp
    \/ HexUniformRefinementOp

SpecRefine == InitSets /\ [][NextRefine]_vars

----------------------------------------------------------------------------
(* The ownership of the tables: the mesh may build and keep a table of its *)
(* own at any time, so that CopyMeshTables meets both an empty slot and a  *)
(* slot that holds a table.                                                *)

TableSlots == {"edge_vertex", "face_vertex", "face_edge"}

\* Mesh::GetEdgeVertexTable, GetFaceVertexTable, GetFaceEdgeTable on
\* w = [mh, hp]: a table the mesh does not hold is built and kept in its slot
MeshGetTable(w, k, wanted) ==
    IF wanted /\ w.mh.slot[k] = 0
    THEN [mh |-> [w.mh EXCEPT !.slot[k] = NewTable(w.hp)], hp |-> Alloc(w.hp)]
    ELSE w

\* the mesh or its user asks for the tables of K, before EntitySets is
\* loaded or in a refinement before EntitySets is told of it
MeshGetTableOp ==
    /\ status = "ok"
    /\ esLast.op = "none" \/ ~mesh.told
    /\ \A k \in TableSlots : mesh.slot[k] = 0
    /\ \E K \in (SUBSET TableSlots) \ {{}} :
           LET w == MeshGetTable(MeshGetTable(MeshGetTable([mh |-> mesh, hp |-> heap],
                        "edge_vertex", "edge_vertex" \in K),
                        "face_vertex", "face_vertex" \in K),
                        "face_edge", "face_edge" \in K)
           IN  /\ mesh' = w.mh
               /\ heap' = w.hp
    /\ UNCHANGED <<mfemDebug, status, tableVars, algVars, dsVars, es, esLast, esFirst, ncent>>

\* ~EntitySets: the instance ends and with it what the model follows
DestroyOp ==
    /\ status = "ok"
    /\ esLast.op \in {"load", "quad", "hex"}
    /\ mesh.told
    /\ status' = "ended"
    /\ heap' = Destroy(es, heap)
    /\ esLast' = [op |-> "end", pre |-> es, input |-> NotOpen, s |-> NotOpen,
                  arg |-> NoArg, ret |-> 0]
    /\ UNCHANGED <<mfemDebug, tableVars, algVars, dsVars, mesh, es, esFirst, ncent>>

NextOwn ==
    \/ MeshGetTableOp
    \/ LoadOp
    \/ DestroyOp
    \/ MeshRefineOp
    \/ QuadUniformRefinementOp
    \/ HexUniformRefinementOp

\* the mesh of one quadrilateral and the mesh of one hexahedron
InitOwn == InitSets /\ mesh.id \in {1, 3}

SpecOwn == InitOwn /\ [][NextOwn]_vars

----------------------------------------------------------------------------
(* The other ways to an EntitySets: the copy of an instance, and the       *)
(* instance built from the NCEntitySets of a non-conforming mesh.          *)

\* EntitySets(const EntitySets &); the copy takes the place of the
\* instance, which ends
CopyCtorOp ==
    /\ status = "ok"
    /\ esLast.op \in {"load", "ncmesh"}
    /\ mesh.told
    /\ LET r == EntitySetsCopyCtor(es, mesh, heap)
       IN  /\ es' = r.e
           /\ heap' = Destroy(es, r.hp)
    /\ esLast' = [op |-> "copy", pre |-> es, input |-> NotOpen, s |-> NotOpen,
                  arg |-> NoArg, ret |-> 0]
    /\ UNCHANGED <<mfemDebug, status, tableVars, algVars, dsVars, mesh, esFirst, ncent>>

\* NCEntitySets(const Mesh &, const NCMesh &); an entry that is no row of
\* the table makes GetRow read outside of it
NCEntitySetsOp ==
    /\ status = "ok"
    /\ esLast.op \in {"load", "copy"}
    /\ ~ncent.built
    /\ esLast' = [op |-> "nc", pre |-> es, input |-> NotOpen, s |-> NotOpen,
                  arg |-> NoArg, ret |-> 0]
    /\ IF /\ RowsExist(es.sets.EDGE, es.edge_vertex_)
          /\ RowsExist(es.sets.FACE, es.face_vertex_)
       THEN ncent' = NCEntitySetsCtor(es, mesh) /\ UNCHANGED status
       ELSE status' = "undefined" /\ UNCHANGED ncent
    /\ UNCHANGED <<mfemDebug, tableVars, algVars, dsVars, mesh, es, esFirst, heap>>

\* EntitySets(Mesh &, NCMesh &) in place of the instance, which ends
EntitySetsNCOp ==
    /\ status = "ok"
    /\ esLast.op = "nc"
    /\ ncent.built
    /\ es' = EntitySetsNCCtor(mesh, ncent)
    /\ heap' = Destroy(es, heap)
    /\ esLast' = [op |-> "ncmesh", pre |-> es, input |-> NotOpen, s |-> NotOpen,
                  arg |-> NoArg, ret |-> 0]
    /\ UNCHANGED <<mfemDebug, status, tableVars, algVars, dsVars, mesh, esFirst, ncent>>

NextSets ==
    \/ LoadOp
    \/ CopyCtorOp
    \/ NCEntitySetsOp
    \/ EntitySetsNCOp

SpecSets == InitSets /\ [][NextSets]_vars

----------------------------------------------------------------------------
(* NCEntitySets on the hexahedron, whose face-vertex table lists the       *)
(* corners of a face in any order, and on the tetrahedron.                 *)

Orders ==
    {o \in [1..4 -> 1..4] : \A a, b \in 1..4 : a # b => o[a] # o[b]}

\* start mesh id, its face-vertex table in this order
OrderedMesh(id, order) ==
    [FreshMesh(id) EXCEPT !.order = order, !.data = MeshData(id, 0, order)]

InitNC ==
    /\ mfemDebug = FALSE
    /\ status = "ok"
    /\ TableIdle
    /\ AlgIdle
    /\ DSIdle
    /\ \/ \E o \in Orders : mesh = OrderedMesh(3, o \o << >>)
       \/ mesh = FreshMesh(4)
    /\ es = EntitySetsCtor(mesh)
    /\ esLast = NoRefine(es)
    /\ esFirst = [e |-> es, gen |-> 0]
    /\ ncent = NoNCEntitySets
    /\ heap = NoHeap

NextNC ==
    \/ LoadOp
    \/ NCEntitySetsOp

SpecNC == InitNC /\ [][NextNC]_vars

----------------------------------------------------------------------------
(* The lookups by name, in both builds, on the EntitySets of the mesh of   *)
(* one quadrilateral after Load.                                           *)

LookupNames == Names \cup {"c"}

InitLookup ==
    /\ mfemDebug \in BOOLEAN
    /\ status = "ok"
    /\ TableIdle
    /\ AlgIdle
    /\ DSIdle
    /\ SetsIdle

Lookup(op, t, name, i, r) ==
    /\ status' = r.st
    /\ esLast' = [op |-> op, pre |-> es, input |-> NotOpen, s |-> NotOpen,
                  arg |-> [t |-> t, name |-> name, i |-> i], ret |-> r.v]
    /\ UNCHANGED <<mfemDebug, tableVars, algVars, dsVars, mesh, es, esFirst, ncent, heap>>

GetSetIndexOp ==
    /\ status = "ok"
    /\ esLast.op # "none"
    /\ \E t \in {"VERTEX", "EDGE", "FACE", "ELEMENT"}, name \in LookupNames :
           Lookup("GetSetIndex", t, name, 0, GetSetIndex(es, t, Str(name), mfemDebug))

GetNumEntitiesOp ==
    /\ status = "ok"
    /\ esLast.op # "none"
    /\ \E t \in {"VERTEX", "EDGE", "FACE", "ELEMENT"}, name \in LookupNames :
           Lookup("GetNumEntities", t, name, 0,
                  GetNumEntitiesByName(es, t, Str(name), mfemDebug))

GetEntityIndexOp ==
    /\ status = "ok"
    /\ esLast.op # "none"
    /\ \E t \in {"VERTEX", "EDGE", "FACE", "ELEMENT"}, name \in LookupNames,
          i \in 0..(MaxId - 1) :
           Lookup("GetEntityIndex", t, name, i,
                  GetEntityIndexByName(es, t, Str(name), i, mfemDebug))

NextLookup ==
    \/ LoadOp
    \/ GetSetIndexOp
    \/ GetNumEntitiesOp
    \/ GetEntityIndexOp

SpecLookup == InitLookup /\ [][NextLookup]_vars

----------------------------------------------------------------------------
(* Reading a Table *)

RowSlots(tab, i) == tab.I[i]..(tab.I[i + 1] - 1)

RowSeq(tab, i) == [n \in 1..(tab.I[i + 1] - tab.I[i]) |-> tab.J[tab.I[i] + n - 1]]

RowCols(tab, i) == {tab.J[k] : k \in RowSlots(tab, i)} \ {Unset}

IsSet(c) == c # Unset

HasUnset(tab) == \E k \in DOMAIN tab.J : tab.J[k] = Unset

\* no sentinel precedes a set entry in a row
SetThenUnset(tab) ==
    \A i \in 0..(tab.size - 1) : \A k, m \in RowSlots(tab, i) :
        (k < m /\ tab.J[k] = Unset) => tab.J[m] = Unset

----------------------------------------------------------------------------
(* C1 as stated: in a fixed-degree Table, a Push(i,j) of a pair that was   *)
(* pushed before returns the slot of the first time and changes neither I  *)
(* nor J.                                                                  *)
C1_AsStated ==
    (tLast.op = "Push" /\ ~tLast.err /\ tLast.seen)
        => /\ tLast.ret = firstSlot[<<tLast.i, tLast.j>>]
           /\ T = tLast.pre

(* C1 amended: the same for every pair whose column j is not the unset     *)
(* sentinel -1.                                                            *)
C1_PushIdempotent ==
    (tLast.op = "Push" /\ ~tLast.err /\ tLast.seen /\ tLast.j # Unset)
        => /\ tLast.ret = firstSlot[<<tLast.i, tLast.j>>]
           /\ T = tLast.pre

C1_Witness ==
    /\ tLast.op = "Push" /\ ~tLast.err /\ tLast.seen /\ tLast.j # Unset
    /\ tLast.ret = 1
    /\ HasUnset(T)

(* C2: in a fixed-degree Table with d slots per row, Push(i,j) of a column *)
(* not in row i when row i holds d distinct columns is a fatal error: no   *)
(* slot is returned and no entry of the table is overwritten.              *)
RowIsFull(tab, i) ==
    Cardinality(RowCols(tab, i)) = tab.I[i + 1] - tab.I[i]

C2_PushFullRowFatal ==
    (/\ tLast.op = "Push"
     /\ tLast.i \in 0..(tLast.pre.size - 1)
     /\ RowIsFull(tLast.pre, tLast.i)
     /\ tLast.j \notin RowCols(tLast.pre, tLast.i))
        => /\ tLast.err
           /\ status = "fatal"
           /\ tLast.ret = -1
           /\ T = tLast.pre

C2_Witness ==
    /\ tLast.op = "Push"
    /\ tLast.i \in 0..(tLast.pre.size - 1)
    /\ RowIsFull(tLast.pre, tLast.i)
    /\ RowCols(tLast.pre, tLast.i) # {}
    /\ tLast.j \notin RowCols(tLast.pre, tLast.i)
    /\ status = "fatal"

(* C3 as stated: Finalize on any Table holding sentinels leaves I[size]    *)
(* equal to the number of non-sentinel entries, removes every sentinel and *)
(* keeps the non-sentinel entries of each row, in order; on a Table        *)
(* without sentinels it changes nothing.                                   *)
FinalizeCompacts(pre, post) ==
    /\ post.size = pre.size
    /\ post.I[post.size] = Cardinality({k \in DOMAIN pre.J : pre.J[k] # Unset})
    /\ DOMAIN post.J = 0..(post.I[post.size] - 1)
    /\ ~HasUnset(post)
    /\ \A i \in 0..(pre.size - 1) :
          RowSeq(post, i) = SelectSeq(RowSeq(pre, i), IsSet)

C3_AsStated ==
    tLast.op = "Finalize"
        => IF HasUnset(tLast.pre)
           THEN FinalizeCompacts(tLast.pre, T)
           ELSE T = tLast.pre

(* C3 amended: the same for every Table in which no sentinel precedes a    *)
(* set entry of its row.                                                   *)
C3_FinalizeCompacts ==
    (tLast.op = "Finalize" /\ SetThenUnset(tLast.pre))
        => IF HasUnset(tLast.pre)
           THEN FinalizeCompacts(tLast.pre, T) /\ status = "ok"
           ELSE T = tLast.pre /\ status = "ok"

C3_Witness ==
    /\ tLast.op = "Finalize"
    /\ SetThenUnset(tLast.pre)
    /\ tLast.pre.size = 2
    /\ \A i \in 0..1 : /\ \E k \in RowSlots(tLast.pre, i) : tLast.pre.J[k] = Unset
                       /\ \E k \in RowSlots(tLast.pre, i) : tLast.pre.J[k] # Unset
    /\ T.I[2] = 2

(* C8: on a Table built by fixed-degree allocation, Push calls and         *)
(* Finalize, operator()(i,j) with j >= 0 returns the slot of row i that    *)
(* holds j, -1 when row i does not hold j, -1 when i is not a row, and     *)
(* leaves the table as it was.                                             *)
C8_ParenLookup ==
    (tLast.op = "Paren" /\ tLast.j >= 0)
        => /\ T = tLast.pre
           /\ IF tLast.i < 0 \/ tLast.i >= T.size
              THEN tLast.ret = -1
              ELSE IF tLast.j \in RowCols(T, tLast.i)
                   THEN tLast.ret \in RowSlots(T, tLast.i) /\ T.J[tLast.ret] = tLast.j
                   ELSE tLast.ret = -1

C8_Witness ==
    /\ tLast.op = "Paren" /\ tLast.j >= 0
    /\ tLast.i = 1
    /\ tLast.ret = T.I[1] + 1
    /\ HasUnset(T)

\* a Table in CSR form: I starts at 0, does not decrease, J has I[size]
\* slots and every slot was written
WellFormed(tab) ==
    /\ tab.size >= 0
    /\ DOMAIN tab.I = 0..tab.size
    /\ tab.I[0] = 0
    /\ \A i \in 0..(tab.size - 1) : tab.I[i] <= tab.I[i + 1]
    /\ DOMAIN tab.J = 0..(tab.I[tab.size] - 1)
    /\ \A k \in DOMAIN tab.J : tab.J[k] # Fresh

Exists(tab, i, j) == OperatorParen(tab, i, j) >= 0

Pairs(tab) ==
    UNION {{<<i, tab.J[k]>> : k \in RowSlots(tab, i)} : i \in 0..(tab.size - 1)}

(* C4: for a sentinel-free A and ncols >= Width(A), Transpose(A, At,       *)
(* ncols) leaves At with ncols rows, At(j,i) exists exactly when A(i,j)    *)
(* exists, and At has as many entries as A.                                *)
C4_TransposePattern ==
    (out.op = "Transpose" /\ out.arg >= Width(A))
        => /\ ~out.err
           /\ WellFormed(out.R)
           /\ out.R.size = out.arg
           /\ out.R.I[out.R.size] = A.I[A.size]
           /\ \A i \in 0..(MaxRows + 1), j \in 0..(MaxCol + 3) :
                Exists(out.R, j, i) <=> Exists(A, i, j)

C4_Witness ==
    /\ out.op = "Transpose" /\ out.arg > Width(A)
    /\ A.size = 2
    /\ A.I[1] = 2 /\ A.I[2] = 3
    /\ A.J[0] = 1 /\ A.J[1] = 0 /\ A.J[2] = 1
    /\ out.R.I[2] = 3

(* C5: for a sentinel-free A, the transpose of the transpose of A, both    *)
(* with the column count defaulted to Width, has the (row, column) pairs   *)
(* of A.                                                                   *)
C5_TransposeTwice ==
    (out.op = "TransposeBack" /\ out.arg < 0)
        => /\ WellFormed(out.R2)
           /\ Pairs(out.R2) = Pairs(A)

C5_Witness ==
    /\ out.op = "TransposeBack" /\ out.arg < 0
    /\ Cardinality(Pairs(A)) >= 3
    /\ \E i \in 0..(A.size - 1) : RowSeq(A, i) # RowSeq(out.R2, i)

(* C6: for sentinel-free A and B with Width(A) <= Size(B), Mult(A, B, C)   *)
(* leaves C with Size(A) rows and C(i,m) exists exactly when some k has    *)
(* A(i,k) and B(k,m).                                                      *)
C6_MultPattern ==
    (out.op = "Mult" /\ Width(A) <= B.size)
        => /\ ~out.err
           /\ WellFormed(out.R)
           /\ out.R.size = A.size
           /\ \A i \in 0..(A.size - 1), m \in 0..(MaxCol + 1) :
                Exists(out.R, i, m) <=>
                    \E k \in 0..(B.size - 1) : Exists(A, i, k) /\ Exists(B, k, m)

C6_Witness ==
    /\ out.op = "Mult" /\ ~out.err
    /\ \E i \in 0..(A.size - 1), m \in 0..MaxCol :
         /\ Cardinality({k \in 0..(B.size - 1) :
                            Exists(A, i, k) /\ Exists(B, k, m)}) >= 2
         /\ Cardinality({k \in RowSlots(out.R, i) : out.R.J[k] = m}) = 1

FirstRet(r, c) ==
    LET n == CHOOSE k \in 1..Len(dsFirst) : dsFirst[k].r = r /\ dsFirst[k].c = c
    IN  dsFirst[n].ret

(* C7: Push_(r,c) with 0 <= r < NumRows of a pair pushed before returns    *)
(* the index of the first time and leaves NumEntries; of a new pair it     *)
(* returns NumEntries and adds 1 to it; the indices handed out are         *)
(* 0..NumEntries-1 in the order the pairs were first pushed, and no row    *)
(* holds a column twice.                                                   *)
C7_PushDense ==
    /\ (dsLast.op = "Push_" /\ dsLast.r \in 0..(ds.NumRows - 1)) =>
          IF dsLast.seen
          THEN dsLast.ret = FirstRet(dsLast.r, dsLast.c) /\ ds = dsLast.pre
          ELSE /\ dsLast.ret = dsLast.pre.NumEntries
               /\ ds.NumEntries = dsLast.pre.NumEntries + 1
    /\ Len(dsFirst) = ds.NumEntries
    /\ \A n \in 1..Len(dsFirst) : dsFirst[n].ret = n - 1
    /\ \A r \in 0..(ds.NumRows - 1) :
          /\ \A m, n \in 1..Len(ds.Rows[r]) :
                ds.Rows[r][m].Column = ds.Rows[r][n].Column => m = n
          /\ \A m \in 1..Len(ds.Rows[r]) :
                /\ WasPushed(r, ds.Rows[r][m].Column)
                /\ ds.Rows[r][m].Index = FirstRet(r, ds.Rows[r][m].Column)

C7_Witness ==
    /\ dsLast.op = "Push_" /\ dsLast.seen
    /\ ds.NumEntries = 3
    /\ dsLast.ret = 0
    /\ Len(ds.Rows[dsLast.r]) = 2

(* C9 as stated: Index(r,c) returns the index Push_(r,c) returned, -1 for  *)
(* a pair never pushed and for every row outside [0, NumRows), below 0     *)
(* included, and changes nothing.                                          *)
C9_AsStated ==
    dsLast.op = "Index"
        => /\ status = "ok"
           /\ ds = dsLast.pre
           /\ IF dsLast.r \in 0..(ds.NumRows - 1) /\ dsLast.seen
              THEN dsLast.ret = FirstRet(dsLast.r, dsLast.c)
              ELSE dsLast.ret = -1

(* C9 amended: the same for rows r >= 0; -1 is returned for a pair never   *)
(* pushed and for r >= NumRows.                                            *)
C9_IndexLookup ==
    (dsLast.op = "Index" /\ dsLast.r >= 0)
        => /\ status = "ok"
           /\ ds = dsLast.pre
           /\ IF dsLast.r \in 0..(ds.NumRows - 1) /\ dsLast.seen
              THEN dsLast.ret = FirstRet(dsLast.r, dsLast.c)
              ELSE dsLast.ret = -1

C9_Witness ==
    /\ dsLast.op = "Index" /\ dsLast.seen
    /\ dsLast.ret = 1
    /\ Len(ds.Rows[dsLast.r]) = 2
    /\ Head(ds.Rows[dsLast.r]).Column # dsLast.c

----------------------------------------------------------------------------
(* C10: a uniform refinement with b children per element (4 for            *)
(* QuadUniformRefinement, 8 for HexUniformRefinement) turns every ELEMENT  *)
(* group e_0..e_{n-1} into a group of b*n entries whose first n entries    *)
(* are unchanged and whose entry n + (b-1)*i + k is                        *)
(* NumOfElements_ + (b-1)*e_i + k for 0 <= k < b-1, NumOfElements_ being   *)
(* the element count of the mesh before the refinement; the group 5 with   *)
(* NumOfElements_ = 10 becomes 5, 25, 26, 27 for quad and 5, 45 .. 51 for  *)
(* hex.                                                                    *)

\* the last call on es was refinement op, and the mesh has not been refined
\* since
RefinedBy(op) == status = "ok" /\ esLast.op = op /\ mesh.told

ElementGroupRefined(g, h, N, b) ==
    /\ Len(h) = b * Len(g)
    /\ \A i \in 0..(Len(g) - 1) :
           /\ h[i + 1] = g[i + 1]
           /\ \A k \in 0..(b - 2) :
                  h[Len(g) + (b - 1) * i + k + 1] = N + (b - 1) * g[i + 1] + k

C10_ElementRefinement ==
    /\ ElementRefine(<<5>>, 10, 4) = <<5, 25, 26, 27>>
    /\ ElementRefine(<<5>>, 10, 8) = <<5, 45, 46, 47, 48, 49, 50, 51>>
    /\ \A op \in {"quad", "hex"} :
           RefinedBy(op) =>
               LET b   == IF op = "quad" THEN 4 ELSE 8
                   old == esLast.pre.sets.ELEMENT
                   new == es.sets.ELEMENT
                   N   == esLast.pre.NumOfElements_
               IN  /\ N = Len(MeshGenerations[mesh.id][mesh.gen].elems)
                   /\ Len(new) = Len(old)
                   /\ \A s \in 1..Len(old) :
                          ElementGroupRefined(old[s], new[s], N, b)

\* a second quad refinement of a group of two elements, one of them not
\* element 0
C10_Witness ==
    /\ RefinedBy("quad")
    /\ esLast.pre.NumOfElements_ = 8
    /\ \E s \in 1..Len(esLast.pre.sets.ELEMENT) :
           LET g == esLast.pre.sets.ELEMENT[s]
           IN  Len(g) = 8 /\ g[2] = 1 /\ Len(es.sets.ELEMENT[s]) = 32

\* a hex refinement of a group of two entries
C10_WitnessHex ==
    /\ RefinedBy("hex")
    /\ \E s \in 1..Len(esLast.pre.sets.ELEMENT) :
           Len(esLast.pre.sets.ELEMENT[s]) = 2 /\ Len(es.sets.ELEMENT[s]) = 16

----------------------------------------------------------------------------
(* C11 as stated: a uniform refinement (quad or hex) turns every EDGE      *)
(* group e_0..e_{n-1} into a group of 2n entries in which, (v0,v1) being   *)
(* the endpoints of e_i in the edge-vertex table of the generation before, *)
(* entry i is the pair-table index of (v0, NumOfVertices_ + e_i) and entry *)
(* i + n that of (v1, NumOfVertices_ + e_i), NumOfVertices_ being the      *)
(* vertex count before the refinement.                                     *)

\* the refinement handler op was the last call on es
Called(op) == esLast.op = op /\ mesh.told

\* the mesh of the generation before the last refinement
MeshBefore == MeshGenerations[mesh.id][mesh.gen]

\* the number the refined mesh gives the edge between a and b
EdgeOf(a, b) == SeqIndex(MeshOf(mesh).edges, <<Min2(a, b), Max2(a, b)>>)

EdgeGroupRefined(g, h, NV) ==
    /\ Len(h) = 2 * Len(g)
    /\ \A i \in 0..(Len(g) - 1) :
           /\ g[i + 1] \in 0..(Len(MeshBefore.edges) - 1)
           /\ h[i + 1] = EdgeOf(MeshBefore.edges[g[i + 1] + 1][1], NV + g[i + 1])
           /\ h[i + 1 + Len(g)] =
                  EdgeOf(MeshBefore.edges[g[i + 1] + 1][2], NV + g[i + 1])
           /\ h[i + 1] >= 0 /\ h[i + 1 + Len(g)] >= 0

EdgeGroupsRefined ==
    /\ esLast.pre.NumOfVertices_ = MeshBefore.NV
    /\ Len(es.sets.EDGE) = Len(esLast.pre.sets.EDGE)
    /\ \A s \in 1..Len(esLast.pre.sets.EDGE) :
           EdgeGroupRefined(esLast.pre.sets.EDGE[s], es.sets.EDGE[s],
                            esLast.pre.NumOfVertices_)

C11_AsStated ==
    \A op \in {"quad", "hex"} : Called(op) => (status = "ok" /\ EdgeGroupsRefined)

\* the same for the refinements that come back: there every EDGE group is
\* as C11 says
C11_WhenDefined ==
    \A op \in {"quad", "hex"} : RefinedBy(op) => EdgeGroupsRefined

----------------------------------------------------------------------------
(* C12 as stated: for every EntitySets state obtained by loading a v1.0    *)
(* text (any number of groups per kind, groups of any size, also of none), *)
(* Print followed by Load of the printed text on the same mesh gives, for  *)
(* every kind, the same number of groups with the same names, sizes and    *)
(* entity indices in the same order.                                       *)

\* Print and Load were the last call, on a state that came from Load
Reloaded == esLast.op = "reload" /\ mesh.gen = 0

SameGroups(e1, e2) == e1.sets = e2.sets /\ e1.set_names_ = e2.set_names_

\* an EDGE or FACE entry that stands for a pair or quadruple without edge
\* or face
HasBadEntity(e) ==
    \E t \in {"EDGE", "FACE"} : \E s \in 1..Len(e.sets[t]) :
        \E p \in 1..Len(e.sets[t][s]) : e.sets[t][s][p] < 0

C12_AsStated == Reloaded => (status = "ok" /\ SameGroups(es, esLast.pre))

(* The round trip of the states obtained by loading a v1.0 text in which  *)
(* every edge entry names an edge and every face entry a face of the mesh. *)
C12_RoundTrip ==
    (Reloaded /\ ~HasBadEntity(esLast.pre)) =>
        (status = "ok" /\ SameGroups(es, esLast.pre))

\* a round trip of an edge group with an edge and a group without entities
C12_Witness ==
    /\ Reloaded
    /\ status = "ok"
    /\ \E s \in 1..Len(es.sets.EDGE) : \E p \in 1..Len(es.sets.EDGE[s]) :
           es.sets.EDGE[s][p] >= 0
    /\ \E t \in {"VERTEX", "EDGE", "ELEMENT"} : \E s \in 1..Len(es.sets[t]) :
           es.sets[t][s] = << >>

----------------------------------------------------------------------------
(* C13: Load on an open stream whose first line is not "MFEM sets v1.0"    *)
(* returns without a fatal error, leaves the instance without groups of    *)
(* any kind, and reads nothing of the stream after that first line.        *)

\* the tokens of text from its first line on, and what follows that line
FromFirstLine(text) ==
    IF \A n \in 1..Len(text) : text[n].t = "nl" THEN << >>
    ELSE LET k == CHOOSE n \in 1..Len(text) :
                      text[n].t # "nl" /\ \A q \in 1..(n - 1) : text[q].t = "nl"
         IN  SubSeq(text, k, Len(text))

FirstLine(text) ==
    LET body == FromFirstLine(text)
    IN  IF \A n \in 1..Len(body) : body[n].t # "nl" THEN body
        ELSE SubSeq(body, 1, (CHOOSE n \in 1..Len(body) :
                 body[n].t = "nl" /\ \A q \in 1..(n - 1) : body[q].t # "nl") - 1)

AfterFirstLine(text) ==
    LET body == FromFirstLine(text)
    IN  SubSeq(body, Len(FirstLine(text)) + 2, Len(body))

OtherHeaderLoaded ==
    /\ esLast.op = "load"
    /\ ~esLast.input.fail
    /\ FirstLine(esLast.input.toks) # <<Word("MFEM sets v1.0")>>

C13_UnknownHeader ==
    OtherHeaderLoaded =>
        /\ status = "ok"
        /\ \A t \in {"VERTEX", "EDGE", "FACE", "ELEMENT"} : GetNumSets(es, t) = 0
        /\ esLast.s.toks = AfterFirstLine(esLast.input.toks)

\* the file of another type, which goes on with groups that are not read
C13_Witness ==
    /\ OtherHeaderLoaded
    /\ FirstLine(esLast.input.toks) = <<Word(OtherType)>>
    /\ Len(esLast.s.toks) > 4

C13_WitnessNoText ==
    /\ OtherHeaderLoaded
    /\ esLast.input.toks = << >>
    /\ status = "ok"

----------------------------------------------------------------------------
(* C14 as stated: in every EntitySets reached by Load, by copy             *)
(* construction or by construction from a non-conforming mesh, the group   *)
(* names of a kind are pairwise different and, for every kind t and every  *)
(* ordinal s < GetNumSets(t), GetSetIndex(t, GetSetName(t, s)) = s.        *)

Kinds == {"VERTEX", "EDGE", "FACE", "ELEMENT"}

Constructed == status = "ok" /\ esLast.op \in {"load", "copy", "ncmesh"}

NamesUnique(e) ==
    \A t \in Kinds : \A s1, s2 \in 0..(GetNumSets(e, t) - 1) :
        s1 # s2 => GetSetName(e, t, s1) # GetSetName(e, t, s2)

NamesResolve(e) ==
    \A t \in Kinds : \A s \in 0..(GetNumSets(e, t) - 1) :
        GetSetIndex(e, t, GetSetName(e, t, s), mfemDebug) = [st |-> "ok", v |-> s]

C14_AsStated == Constructed => (NamesUnique(es) /\ NamesResolve(es))

(* What holds instead: the lookup of the name of group s answers with the  *)
(* last group of that name.                                                *)
C14_LastOfName ==
    Constructed =>
        \A t \in Kinds : \A s \in 0..(GetNumSets(es, t) - 1) :
            LET r == GetSetIndex(es, t, GetSetName(es, t, s), mfemDebug)
            IN  /\ r.st = "ok"
                /\ r.v \in s..(GetNumSets(es, t) - 1)
                /\ GetSetName(es, t, r.v) = GetSetName(es, t, s)
                /\ \A s2 \in (r.v + 1)..(GetNumSets(es, t) - 1) :
                       GetSetName(es, t, s2) # GetSetName(es, t, s)

----------------------------------------------------------------------------
(* C15 as stated: GetSetIndex and the lookups by name of GetNumEntities    *)
(* and GetEntityIndex, called with a name that no group of the kind has,   *)
(* always end in the lookup error and return no ordinal, size or entity    *)
(* index.                                                                  *)

\* the last call was a lookup by a name that no group of the kind has
UnknownNameLookup ==
    /\ esLast.op \in {"GetSetIndex", "GetNumEntities", "GetEntityIndex"}
    /\ \A s \in 0..(GetNumSets(es, esLast.arg.t) - 1) :
           GetSetName(es, esLast.arg.t, s) # Str(esLast.arg.name)

C15_AsStated == UnknownNameLookup => (status = "fatal" /\ esLast.ret = Fresh)

(* C15 amended: in a build with MFEM_DEBUG the three lookups end in the    *)
(* lookup error for such a name and return nothing; in a build without it  *)
(* the name is not tested and the lookup reads the entry of the end of the *)
(* map, which is undefined.                                                *)
C15_UnknownName ==
    UnknownNameLookup =>
        /\ esLast.ret = Fresh
        /\ mfemDebug => status = "fatal"
        /\ ~mfemDebug => status = "undefined"

\* the lookup by name of an entity of a kind with groups, MFEM_DEBUG build
C15_Witness ==
    /\ UnknownNameLookup
    /\ esLast.op = "GetEntityIndex"
    /\ GetNumSets(es, esLast.arg.t) > 0
    /\ mfemDebug
    /\ status = "fatal"

C15_WitnessGetSetIndex ==
    /\ UnknownNameLookup
    /\ esLast.op = "GetSetIndex"
    /\ ~mfemDebug
    /\ status = "undefined"

----------------------------------------------------------------------------
(* C16: after every CopyMeshTables (after Load and after every refinement) *)
(* each table EntitySets holds is a live object that neither the mesh nor  *)
(* another field of EntitySets refers to, every table held before was      *)
(* released once and no table is left without an owner, and the three      *)
(* counts are those of the mesh as it is now.                              *)

\* CopyMeshTables was the last step of the last call
AfterCopyMeshTables ==
    /\ status = "ok"
    /\ esLast.op \in {"load", "reload", "quad", "hex"}
    /\ mesh.told

Held(p) == {p[k] : k \in TableSlots} \ {0}

\* the end of an instance releases what it held, once, and nothing of the
\* mesh
C16_Destroyed ==
    esLast.op = "end" =>
        /\ ~heap.twice
        /\ heap.live = Held(mesh.slot)

C16_Ownership ==
    /\ C16_Destroyed
    /\ AfterCopyMeshTables =>
        /\ \A k \in TableSlots :
               es.ptr[k] # 0 =>
                   /\ es.ptr[k] \in heap.live
                   /\ \A m \in TableSlots : mesh.slot[m] # es.ptr[k]
                   /\ \A m \in TableSlots \ {k} : es.ptr[m] # es.ptr[k]
        /\ ~heap.twice
        /\ heap.live = Held(es.ptr) \cup Held(mesh.slot)
        /\ es.NumOfVertices_ = GetNV(mesh)
        /\ es.NumOfEdges_ = GetNEdges(mesh)
        /\ es.NumOfElements_ = GetNE(mesh)

\* a refinement of an instance that held its tables: the mesh kept an
\* edge-vertex table of its own (the copy) and no face-vertex table (the
\* handoff)
C16_Witness ==
    /\ AfterCopyMeshTables
    /\ esLast.op \in {"quad", "hex"}
    /\ esLast.pre.ptr.edge_vertex # 0
    /\ es.ptr.edge_vertex # 0
    /\ mesh.slot.edge_vertex # 0
    /\ esLast.pre.ptr.face_vertex # 0
    /\ es.ptr.face_vertex # 0
    /\ mesh.slot.face_vertex = 0

----------------------------------------------------------------------------
(* C17: NCEntitySets flattens every quadrilateral face of a FACE group to  *)
(* a 4-tuple that is a permutation of the four vertices of the face, with  *)
(* the first joined by an edge of the mesh to the second and to the        *)
(* fourth, in whatever order the face-vertex table lists the vertices; a   *)
(* triangular face becomes its three vertices followed by -1.              *)

\* an edge of the mesh joins a and b
Joined(a, b) ==
    \E n \in 1..Len(MeshOf(mesh).edges) :
        MeshOf(mesh).edges[n] = <<Min2(a, b), Max2(a, b)>>

NCBuilt == status = "ok" /\ esLast.op = "nc" /\ ncent.built

\* the tuple of member i of FACE group s
NCTuple(s, i) == [k \in 1..4 |-> ncent.sets.FACE[s][4 * (i - 1) + k]]

C17_FaceTuples ==
    NCBuilt =>
        \A s \in 1..Len(es.sets.FACE) :
            /\ Len(ncent.sets.FACE[s]) = 4 * Len(es.sets.FACE[s])
            /\ \A i \in 1..Len(es.sets.FACE[s]) :
                   LET face == MeshOf(mesh).faces[es.sets.FACE[s][i] + 1]
                       t    == NCTuple(s, i)
                   IN  IF Len(face) = 4
                       THEN /\ {t[k] : k \in 1..4} = Range(face)
                            /\ Joined(t[1], t[2])
                            /\ Joined(t[1], t[4])
                       ELSE /\ \A k \in 1..3 :
                                   t[k] = GetRow(es.face_vertex_, es.sets.FACE[s][i], k - 1)
                            /\ {t[k] : k \in 1..3} = Range(face)
                            /\ t[4] = -1

\* a face whose second listed vertex lies across the face from the first
C17_Witness ==
    /\ NCBuilt
    /\ \E s \in 1..Len(es.sets.FACE) : \E i \in 1..Len(es.sets.FACE[s]) :
           /\ RowSize(es.face_vertex_, es.sets.FACE[s][i]) = 4
           /\ ~Joined(GetRow(es.face_vertex_, es.sets.FACE[s][i], 0),
                      GetRow(es.face_vertex_, es.sets.FACE[s][i], 1))

\* a face whose fourth listed vertex lies across the face from the first
C17_WitnessFourth ==
    /\ NCBuilt
    /\ \E s \in 1..Len(es.sets.FACE) : \E i \in 1..Len(es.sets.FACE[s]) :
           /\ RowSize(es.face_vertex_, es.sets.FACE[s][i]) = 4
           /\ ~Joined(GetRow(es.face_vertex_, es.sets.FACE[s][i], 0),
                      GetRow(es.face_vertex_, es.sets.FACE[s][i], 3))

\* a triangular face
C17_WitnessTriangle ==
    /\ NCBuilt
    /\ \E s \in 1..Len(es.sets.FACE) : \E i \in 1..Len(es.sets.FACE[s]) :
           RowSize(es.face_vertex_, es.sets.FACE[s][i]) = 3

----------------------------------------------------------------------------
(* C18: MakeI(n), AddAColumnInRow once per entry, MakeJ, AddConnection for *)
(* the same entries and ShiftUpI leave standard offsets: I[0] = 0, the     *)
(* difference I[i+1] - I[i] is the number of entries added to row i, I[n]  *)
(* is the number of entries, and row i holds the columns added to row i in *)
(* the order they were added.  Transpose of an array equals Transpose of   *)
(* the table that holds the one entry arr[i] in row i.                     *)

\* the columns the plan adds to row r, in its order
RECURSIVE PlanRow(_, _, _)
PlanRow(plan, r, k) ==
    IF k = 0 THEN << >>
    ELSE IF plan[k][1] = r THEN Append(PlanRow(plan, r, k - 1), plan[k][2])
    ELSE PlanRow(plan, r, k - 1)

RowOf(tab, i) == [k \in 1..(tab.I[i + 1] - tab.I[i]) |-> tab.J[tab.I[i] + k - 1]]

OneEntryTable(arr) == TableOfRows([i \in 1..Len(arr) |-> <<arr[i]>>])

C18_TwoPhaseBuild ==
    /\ build.phase = "built" =>
           /\ T.size = build.n
           /\ T.I[0] = 0
           /\ T.I[build.n] = Len(build.plan)
           /\ \A i \in 0..(build.n - 1) :
                  /\ T.I[i + 1] - T.I[i] = Len(PlanRow(build.plan, i, Len(build.plan)))
                  /\ RowOf(T, i) = PlanRow(build.plan, i, Len(build.plan))
    /\ build.phase = "array" =>
           IF build.ncols >= 0 /\ build.ncols < Width(OneEntryTable(build.arr))
           THEN status = "undefined"
           ELSE /\ status = "ok"
                /\ T = Transpose(OneEntryTable(build.arr), build.pre, build.ncols)

\* a build of three entries, the two of row 1 apart
C18_Witness ==
    /\ build.phase = "built"
    /\ build.n = 2
    /\ Len(build.plan) = 3
    /\ build.plan[1][1] = 1
    /\ build.plan[2][1] = 0
    /\ build.plan[3][1] = 1
    /\ build.plan[1][2] # build.plan[3][2]

\* the transpose of an array with two rows in one column
C18_WitnessArray ==
    /\ build.phase = "array"
    /\ status = "ok"
    /\ Len(build.arr) = 3
    /\ build.arr[1] = build.arr[3]
    /\ build.arr[1] # build.arr[2]

----------------------------------------------------------------------------
(* C19: HexUniformRefinement turns every FACE group f_0..f_{n-1} of        *)
(* quadrilateral faces into a group of 4n entries; entry i is the child    *)
(* face of f_i at its corner v[0], entry n + 3i + j - 1 the child at       *)
(* corner v[j], j = 1..3, the child at a corner being the face of the      *)
(* refined mesh with that corner, the vertices NumOfVertices_ + e of the   *)
(* two edges e of f_i at the corner, and the vertex NumOfVertices_ +       *)
(* NumOfEdges_ + f_i; every entry is a face that was found.                *)

\* the edges of the mesh before that join corner c to a vertex of face f
CornerEdges(f, c) ==
    {k \in 0..(Len(MeshBefore.edges) - 1) :
        /\ c \in Range(MeshBefore.edges[k + 1])
        /\ Range(MeshBefore.edges[k + 1]) \subseteq Range(MeshBefore.faces[f + 1])}

\* the number the refined mesh gives the child of face f at corner c
ChildAt(f, c, NV, NE) ==
    FaceIndexOf(MeshOf(mesh).faces,
                {c, NV + NE + f} \cup {NV + k : k \in CornerEdges(f, c)})

FaceGroupRefined(g, h, pre) ==
    /\ Len(h) = 4 * Len(g)
    /\ \A i \in 0..(Len(g) - 1) : \A j \in 0..3 :
           LET f   == g[i + 1]
               c   == GetRow(pre.face_vertex_, f, j)
               pos == IF j = 0 THEN i ELSE Len(g) + 3 * i + j - 1
           IN  /\ f \in 0..(Len(MeshBefore.faces) - 1)
               /\ c \in Range(MeshBefore.faces[f + 1])
               /\ Cardinality(CornerEdges(f, c)) = 2
               /\ h[pos + 1] = ChildAt(f, c, pre.NumOfVertices_, pre.NumOfEdges_)
               /\ h[pos + 1] >= 0
               /\ FaceChild(pre, mesh, f, j) = h[pos + 1]
               /\ c \in Range(MeshOf(mesh).faces[h[pos + 1] + 1])

C19_FaceRefinement ==
    RefinedBy("hex") =>
        /\ esLast.pre.NumOfVertices_ = MeshBefore.NV
        /\ esLast.pre.NumOfEdges_ = Len(MeshBefore.edges)
        /\ Len(es.sets.FACE) = Len(esLast.pre.sets.FACE)
        /\ \A s \in 1..Len(esLast.pre.sets.FACE) :
               FaceGroupRefined(esLast.pre.sets.FACE[s], es.sets.FACE[s], esLast.pre)

\* a refined group of two different faces
C19_Witness ==
    /\ RefinedBy("hex")
    /\ \E s \in 1..Len(esLast.pre.sets.FACE) :
           /\ Len(esLast.pre.sets.FACE[s]) = 2
           /\ esLast.pre.sets.FACE[s][1] # esLast.pre.sets.FACE[s][2]
           /\ Len(es.sets.FACE[s]) = 8

----------------------------------------------------------------------------
(* C20: in every state of a fixed-degree Table reached from its            *)
(* construction by Push calls with columns j >= 0, every row is a run of   *)
(* distinct set columns followed by unset sentinels only: no sentinel      *)
(* precedes a set entry of its row, no column is twice in a row, and Push  *)
(* leaves I as it is.  (A Push of the sentinel itself returns the first    *)
(* unset slot and writes nothing, so the states are the same with it.)     *)

\* the set entries of row i are pairwise different
RowDistinct(tab, i) ==
    \A k, m \in tab.I[i]..(tab.I[i + 1] - 1) :
        (k # m /\ tab.J[k] # Unset) => tab.J[k] # tab.J[m]

C20_PushRows ==
    status # "undefined" =>
        /\ SetThenUnset(T)
        /\ \A i \in 0..(T.size - 1) : RowDistinct(T, i)
        /\ tLast.op = "Push" => T.I = tLast.pre.I

\* a Push of a column j >= 0 that filled the second slot of a row while
\* another row holds a set entry and a sentinel
C20_Witness ==
    /\ tLast.op = "Push"
    /\ ~tLast.err
    /\ tLast.j >= 0
    /\ T # tLast.pre
    /\ tLast.ret = T.I[tLast.i] + 1
    /\ \E i \in 0..(T.size - 1) :
           /\ T.I[i + 1] - T.I[i] = 2
           /\ T.J[T.I[i]] # Unset
           /\ T.J[T.I[i] + 1] = Unset

----------------------------------------------------------------------------
(* C21: after k uniform refinements of one kind with branching factor b    *)
(* (4 for quadrilaterals, 8 for hexahedra), an ELEMENT group that Load     *)
(* left with n pairwise different indices in [0, N), N the element count   *)
(* of the mesh then, holds b^k * n pairwise different indices, all in      *)
(* [0, b^k * N); the VERTEX groups are as Load left them.                  *)

RECURSIVE Power(_, _)
Power(b, k) == IF k = 0 THEN 1 ELSE b * Power(b, k - 1)

\* the members of g are pairwise different and lie in [0, N)
DistinctBelow(g, N) ==
    /\ \A p, q \in 1..Len(g) : p # q => g[p] # g[q]
    /\ \A p \in 1..Len(g) : g[p] \in 0..(N - 1)

\* the refinements EntitySets was told of since Load
RefinementsSinceLoad == mesh.gen - esFirst.gen

\* the element count of the mesh when Load ran
ElementsAtLoad == Len(MeshGenerations[mesh.id][esFirst.gen + 1].elems)

\* EntitySets came from Load and has been told of every refinement since
ToldSinceLoad ==
    /\ status = "ok"
    /\ esLast.op \in {"load", "reload", "quad", "hex"}
    /\ mesh.told

C21_RepeatedRefinement ==
    ToldSinceLoad =>
        LET k == RefinementsSinceLoad
            b == Branching(MeshOf(mesh).Dim)
            N == ElementsAtLoad
        IN  /\ GetNE(mesh) = Power(b, k) * N
            /\ es.NumOfElements_ = GetNE(mesh)
            /\ Len(es.sets.ELEMENT) = Len(esFirst.e.sets.ELEMENT)
            /\ \A s \in 1..Len(esFirst.e.sets.ELEMENT) :
                   DistinctBelow(esFirst.e.sets.ELEMENT[s], N) =>
                       /\ Len(es.sets.ELEMENT[s]) =
                              Power(b, k) * Len(esFirst.e.sets.ELEMENT[s])
                       /\ DistinctBelow(es.sets.ELEMENT[s], Power(b, k) * N)
            /\ es.sets.VERTEX = esFirst.e.sets.VERTEX

\* two refinements of the two quadrilaterals, a group of both elements
C21_Witness ==
    /\ ToldSinceLoad
    /\ RefinementsSinceLoad = 2
    /\ ElementsAtLoad = 2
    /\ \E s \in 1..Len(esFirst.e.sets.ELEMENT) :
           /\ Len(esFirst.e.sets.ELEMENT[s]) = 2
           /\ DistinctBelow(esFirst.e.sets.ELEMENT[s], 2)
           /\ Len(es.sets.ELEMENT[s]) = 32

\* two refinements with a VERTEX group that has a member
C21_WitnessVertex ==
    /\ ToldSinceLoad
    /\ RefinementsSinceLoad = 2
    /\ \E s \in 1..Len(es.sets.VERTEX) : es.sets.VERTEX[s] # << >>

\* one refinement of the hexahedron, a group of its element
C21_WitnessHex ==
    /\ ToldSinceLoad
    /\ esLast.op = "hex"
    /\ RefinementsSinceLoad = 1
    /\ \E s \in 1..Len(esFirst.e.sets.ELEMENT) :
           /\ esFirst.e.sets.ELEMENT[s] = <<0>>
           /\ Len(es.sets.ELEMENT[s]) = 8

====
